---------------------------- MODULE Spec2Model ----------------------------
(***************************************************************************)
(* A model of buwis-friend: the filing session (BuwisFriend) and the       *)
(* digital invoice (DigitalInvoice) with its tax breakdown engine.         *)
(*                                                                         *)
(* Conventions                                                             *)
(*  - An instant (a JavaScript Date) is a record [valid, y, m, d, ms]: the *)
(*    UTC calendar date and the millisecond of the day.  An unparseable    *)
(*    date string gives the Invalid Date, whose time value is NaN.         *)
(*  - Invoice money is counted in centavos, rates in percent (12 = 0.12).  *)
(*    The arithmetic is exact, on fractions: the binary rounding error of  *)
(*    IEEE doubles is not modelled.                                        *)
(*  - Session money is counted in pesos; an income tax is given in         *)
(*    centavos (hundredths of the income's unit).                          *)
(***************************************************************************)
EXTENDS Integers, Sequences, FiniteSets, TLC

VARIABLES
    \* ---- BuwisFriend (src/src/business-buwis-friend.ts) ----
    quarter,        \* metadata.quarter
    year,           \* metadata.year
    incomeTaxType,  \* metadata.taxSettings.incomeTaxType
    invoices,       \* this.invoices
    summary,        \* this.summary
    sessLast,       \* the last session call: what was called, on what kind
                    \* of argument, how it ended, what it left alone and
                    \* the invoices a query got
    \* ---- DigitalInvoice (src/src/business-invoice.ts) ----
    origin,         \* how the invoice was made: "initialize" or "constructor"
    invType,        \* metadata.type
    orders,         \* order.orders: the amount of each order line
    oscaPWDNumber,  \* customer.oscaPWDNumber
    breakdown,      \* order.breakdown
    payment,        \* this.payment
    invLast,        \* the last invoice call: what was called, on what
                    \* argument (of toggleVATInclusive), how it ended, and
                    \* the discount.other it found
    \* ---- calls of functions and of value objects ----
    operands,       \* what is called, and on what
    returned        \* how the call ended: the value returned or the error

sessVars == <<quarter, year, incomeTaxType, invoices, summary, sessLast>>
invVars == <<origin, invType, orders, oscaPWDNumber, breakdown, payment, invLast>>

libVars == <<operands, returned>>

vars == <<sessVars, invVars, libVars>>

---------------------------------------------------------------------------
(* Bounds of the model *)

\* the longest batch passed to addInvoices / updateInvoices
MaxBatch == 2

---------------------------------------------------------------------------
(* Enumerations *)

QuarterPeriod == {"Q1", "Q2", "Q3", "Q4"}
IncomeTaxType == {"GRADUATED", "FLAT"}

---------------------------------------------------------------------------
(* Dates *)

Instant(y, m, d, ms) == [valid |-> TRUE, y |-> y, m |-> m, d |-> d, ms |-> ms]
InvalidDate == [valid |-> FALSE, y |-> 0, m |-> 0, d |-> 0, ms |-> 0]

LastMs == 86399999

\* a.getTime() < b.getTime() on valid dates
TimeLess(a, b) ==
    \/ a.y < b.y
    \/ a.y = b.y /\ a.m < b.m
    \/ a.y = b.y /\ a.m = b.m /\ a.d < b.d
    \/ a.y = b.y /\ a.m = b.m /\ a.d = b.d /\ a.ms < b.ms

\* JavaScript a < b on Dates: false as soon as one side is NaN
DateLT(a, b) == a.valid /\ b.valid /\ TimeLess(a, b)
DateGT(a, b) == DateLT(b, a)
DateLE(a, b) == a.valid /\ b.valid /\ ~TimeLess(b, a)
DateGE(a, b) == DateLE(b, a)

getQuarterDateRange(q, y) ==
    CASE q = "Q1" -> <<Instant(y, 1, 1, 0), Instant(y, 3, 31, LastMs)>>
      [] q = "Q2" -> <<Instant(y, 4, 1, 0), Instant(y, 6, 30, LastMs)>>
      [] q = "Q3" -> <<Instant(y, 7, 1, 0), Instant(y, 9, 30, LastMs)>>
      [] q = "Q4" -> <<Instant(y, 10, 1, 0), Instant(y, 12, 31, LastMs)>>

\* the test of addInvoice, addInvoices and updateInvoices:
\* issuedDate < startDate || issuedDate > endDate
\* (variant) the bounds of the period taken as exclusive
NotFileable_ExclusiveBounds(ts, q, y) ==
    LET r == getQuarterDateRange(q, y)
    IN  DateLE(ts, r[1]) \/ DateGE(ts, r[2])

NotFileable(ts, q, y) ==
    LET r == getQuarterDateRange(q, y)
    IN  DateLT(ts, r[1]) \/ DateGT(ts, r[2])

---------------------------------------------------------------------------
(* Array.prototype.sort with (a, b) => time(a) - time(b) *)

\* the comparator's result is negative
CmpNeg(a, b) == DateLT(a.ts, b.ts)
\* the comparator's result is 0, or NaN (which sort takes as +0)
CmpZero(a, b) == ~DateLT(a.ts, b.ts) /\ ~DateLT(b.ts, a.ts)

\* a consistent comparator: "equal" is transitive over the elements
ConsistentOn(list) ==
    \A i, j, k \in 1..Len(list) :
        (CmpZero(list[i], list[j]) /\ CmpZero(list[j], list[k]))
            => CmpZero(list[i], list[k])

\* x put behind every element that does not come after it
InsertStable(s, x) ==
    LET n == Cardinality({i \in 1..Len(s) : ~CmpNeg(x, s[i])})
    IN  SubSeq(s, 1, n) \o <<x>> \o SubSeq(s, n + 1, Len(s))

RECURSIVE StableSort(_)
StableSort(list) ==
    IF list = <<>> THEN <<>>
    ELSE InsertStable(StableSort(SubSeq(list, 1, Len(list) - 1)), list[Len(list)])

PermutationsOf(list) ==
    LET n == Len(list)
        bij == {p \in [1..n -> 1..n] : \A i, j \in 1..n : p[i] = p[j] => i = j}
    IN  {[i \in 1..n |-> list[p[i]]] : p \in bij}

\* The lists sort may leave: the stable sort for a consistent comparator;
\* an implementation-defined order of the same elements otherwise.
SortByTimestamp(list) ==
    IF ConsistentOn(list) THEN {StableSort(list)} ELSE PermutationsOf(list)


---------------------------------------------------------------------------
(* Exact arithmetic: a number is <<w, n, d>>, the integer w plus the        *)
(* fraction n/d in lowest terms with 0 <= n < d.  Two numbers are equal     *)
(* exactly when their triples are.                                          *)

Abs(n) == IF n < 0 THEN -n ELSE n

\* The operations are functions of numbers, so that an operand is a value
\* when the operation starts, however it was written.
Number == Int \X Int \X Int

RECURSIVE GCD(_, _)
Euclid[a \in Nat, b \in Nat] == IF b = 0 THEN a ELSE GCD(b, a % b)
GCD(a, b) == Euclid[a, b]

\* w + r/d for 0 <= r < d, where g divides r and d
Reduced(w, r, d, g) == IF r = 0 THEN <<w, 0, 1>> ELSE <<w, r \div g, d \div g>>
\* the number n/d, for d > 0
Lowest[n \in Int, d \in Nat] == Reduced(n \div d, n % d, d, GCD(n % d, d))
Frac(n, d) == Lowest[n, d]
Whole(n) == <<n, 0, 1>>
IsWhole(a) == a[2] = 0
\* p percent
Percent(p) == Frac(p, 100)

\* w + f
Carried[w \in Int, f \in Number] == <<w + f[1], f[2], f[3]>>
\* sums over the least common denominator, which keeps the numbers small;
\* g is the greatest common divisor of the two denominators
SumOver(a, b, g) ==
    Carried[a[1] + b[1],
            Frac(a[2] * (b[3] \div g) + b[2] * (a[3] \div g), (a[3] \div g) * b[3])]
Sum[a \in Number, b \in Number] == SumOver(a, b, GCD(a[3], b[3]))
Plus(a, b) == Sum[a, b]
Negation[a \in Number] ==
    IF a[2] = 0 THEN <<-a[1], 0, 1>> ELSE <<-a[1] - 1, a[3] - a[2], a[3]>>
Neg(a) == Negation[a]
Minus(a, b) == Sum[a, Negation[b]]
\* (n1/d1) * (n2/d2) for fractions below 1, reduced before it is multiplied
\* out: g1 divides n1 and d2, g2 divides n2 and d1
CrossReduced(n1, d1, n2, d2, g1, g2) ==
    IF n1 = 0 \/ n2 = 0 THEN <<0, 0, 1>>
    ELSE Frac((n1 \div g1) * (n2 \div g2), (d1 \div g2) * (d2 \div g1))
TimesFrac(n1, d1, n2, d2) == CrossReduced(n1, d1, n2, d2, GCD(n1, d2), GCD(n2, d1))
\* (w1 + f1) * (w2 + f2) term by term; one factor is a rate or an amount of
\* few pesos, so that no product leaves the range of the integers
Product[a \in Number, b \in Number] ==
    Sum[Carried[a[1] * b[1], Frac(a[1] * b[2], b[3])],
        Sum[Frac(b[1] * a[2], a[3]), TimesFrac(a[2], a[3], b[2], b[3])]]
Times(a, b) == Product[a, b]
\* a / b for b > 0
Quotient[a \in Number, b \in Number] ==
    Product[a, Frac(b[3], b[1] * b[3] + b[2])]
Over(a, b) == Quotient[a, b]
Above0[a \in Number] == a[1] > 0 \/ (a[1] = 0 /\ a[2] > 0)
Positive(a) == Above0[a]

\* Math.round: the nearest integer, a half going up
Nearest[a \in Number] == IF 2 * a[2] >= a[3] THEN a[1] + 1 ELSE a[1]
MathRound(a) == Nearest[a]

\* round(num) = Math.round(num * 100) / 100 of an amount held in centavos
round(a) == MathRound(a)

---------------------------------------------------------------------------
(* Income tax schedule (finance/utils-bir-tax) *)

\* The tax due on `income` pesos, in centavos.
\* (variant) a schedule whose last bracket has no upper bound
computeGraduatedIncomeTax_NoTopBracket(income, type) ==
    IF type = "FLAT"
    THEN IF income > 250000 THEN (income - 250000) * 8 ELSE 0
    ELSE IF income <= 250000 THEN 0
    ELSE IF income <= 400000 THEN (income - 250000) * 15
    ELSE IF income <= 800000 THEN 2250000 + (income - 400000) * 20
    ELSE IF income <= 2000000 THEN 10250000 + (income - 800000) * 25
    ELSE 40250000 + (income - 2000000) * 30

\* (variant) a schedule whose second bracket starts from 20,000 instead of
\* the 22,500 due at its lower limit
computeGraduatedIncomeTax_LowSecondBracket(income, type) ==
    IF type = "FLAT"
    THEN IF income > 250000 THEN (income - 250000) * 8 ELSE 0
    ELSE IF income <= 250000 THEN 0
    ELSE IF income <= 400000 THEN (income - 250000) * 15
    ELSE IF income <= 800000 THEN 2000000 + (income - 400000) * 20
    ELSE IF income <= 2000000 THEN 10250000 + (income - 800000) * 25
    ELSE IF income <= 8000000 THEN 40250000 + (income - 2000000) * 30
    ELSE 220250000 + (income - 8000000) * 35

computeGraduatedIncomeTax(income, type) ==
    IF type = "FLAT"
    THEN IF income > 250000 THEN (income - 250000) * 8 ELSE 0
    ELSE IF income <= 250000 THEN 0
    ELSE IF income <= 400000 THEN (income - 250000) * 15
    ELSE IF income <= 800000 THEN 2250000 + (income - 400000) * 20
    ELSE IF income <= 2000000 THEN 10250000 + (income - 800000) * 25
    ELSE IF income <= 8000000 THEN 40250000 + (income - 2000000) * 30
    ELSE 220250000 + (income - 8000000) * 35

---------------------------------------------------------------------------
(* Session invoices and the universe the calls draw from *)

InvoiceNumbers == {"A", "B"}

\* the net receivable (pesos) of the breakdown an invoice carries
NetReceivableOf(num) ==
    CASE num = "A" -> 200000
      [] num = "B" -> 300000

Timestamps ==
    { Instant(2024, 12, 31, LastMs),   \* the last instant of 2024 Q4
      Instant(2025, 1, 1, 0),          \* the first instant of 2025 Q1
      Instant(2025, 3, 31, LastMs),    \* the last instant of 2025 Q1
      Instant(2025, 4, 1, 0),          \* the first instant after 2025 Q1
      InvalidDate }                    \* new Date("not a date")

Years == {2024, 2025}
\* the quarters the calls pass
Quarters == {"Q1", "Q4"}

InvoiceUniverse == [num : InvoiceNumbers, ts : Timestamps]

Batches == UNION {[1..n -> InvoiceUniverse] : n \in 1..MaxBatch}

---------------------------------------------------------------------------
(* SalesSummaryReport (finance/finance-sales-report).  Its identity fields *)
(* are the period and the regime; the taxpayer and the user, which no      *)
(* modelled call changes, are left out.                                    *)

ZeroTotals == [count |-> 0, netIncome |-> 0, incomeTax |-> 0]

SummaryInitialize(q, y, type) ==
    [quarter |-> q, year |-> y, incomeTaxType |-> type, totals |-> ZeroTotals]

InPeriod(inv, q, y) ==
    LET r == getQuarterDateRange(q, y)
    IN  DateGE(inv.ts, r[1]) /\ DateLE(inv.ts, r[2])

RECURSIVE SumNet(_)
SumNet(list) ==
    IF list = <<>> THEN 0
    ELSE NetReceivableOf(list[1].num) + SumNet(Tail(list))

SummaryUpdateInvoices(s, list) ==
    LET held == SelectSeq(list, LAMBDA inv : InPeriod(inv, s.quarter, s.year))
        net == SumNet(held)
    IN  [s EXCEPT !.totals =
            [count |-> Len(held), netIncome |-> net,
             incomeTax |-> computeGraduatedIncomeTax(net, s.incomeTaxType)]]

SummaryClearInvoices(s) == [s EXCEPT !.totals = ZeroTotals]

---------------------------------------------------------------------------
(* BuwisFriend *)

Session == [quarter |-> quarter, year |-> year, incomeTaxType |-> incomeTaxType,
            invoices |-> invoices, summary |-> summary]

refreshSummary(s) ==
    IF s.invoices = <<>>
    THEN [s EXCEPT !.summary = SummaryClearInvoices(s.summary)]
    ELSE [s EXCEPT !.summary =
            SummaryUpdateInvoices(
                SummaryInitialize(s.quarter, s.year, s.incomeTaxType), s.invoices)]

doesInvoiceExist(s, num) == \E i \in 1..Len(s.invoices) : s.invoices[i].num = num

\* The outcomes of a call: it throws `err` and leaves s, or returns one of S.
Thrown(s, err) == {[result |-> err, s |-> s]}
Returned(S) == {[result |-> "ok", s |-> t] : t \in S}

Least(S) == CHOOSE i \in S : \A j \in S : i <= j

\* (variant) addInvoice without the check of the number
addInvoice_NoDuplicateCheck(s, inv) ==
    IF NotFileable(inv.ts, s.quarter, s.year) THEN Thrown(s, "not fileable")
    ELSE Returned({refreshSummary([s EXCEPT !.invoices = l]) :
                    l \in SortByTimestamp(Append(s.invoices, inv))})

addInvoice(s, inv) ==
    IF doesInvoiceExist(s, inv.num) THEN Thrown(s, "already exists")
    ELSE IF NotFileable(inv.ts, s.quarter, s.year) THEN Thrown(s, "not fileable")
    ELSE Returned({refreshSummary([s EXCEPT !.invoices = l]) :
                    l \in SortByTimestamp(Append(s.invoices, inv))})

\* seen.has(invoiceNumber) at the i-th invoice of the batch
SeenInBatch(batch, i) == \E j \in 1..(i - 1) : batch[j].num = batch[i].num

updateInvoices(s, batch) ==
    LET bad == {i \in 1..Len(batch) :
                    \/ NotFileable(batch[i].ts, s.quarter, s.year)
                    \/ SeenInBatch(batch, i)}
    IN  IF batch = <<>> THEN Returned({s})
        ELSE IF bad # {}
        THEN IF NotFileable(batch[Least(bad)].ts, s.quarter, s.year)
             THEN Thrown(s, "not fileable")
             ELSE Thrown(s, "duplicate in batch")
        ELSE Returned({refreshSummary([s EXCEPT !.invoices = l]) :
                        l \in SortByTimestamp(batch)})

\* (variant) addInvoices that holds each invoice as soon as it has passed the
\* checks, so that the ones before a rejected invoice stay
addInvoices_Incremental(s, batch) ==
    LET bad == {i \in 1..Len(batch) :
                    \/ NotFileable(batch[i].ts, s.quarter, s.year)
                    \/ SeenInBatch(batch, i)
                    \/ doesInvoiceExist(s, batch[i].num)}
        kept == [s EXCEPT !.invoices = s.invoices \o SubSeq(batch, 1, Least(bad) - 1)]
    IN  IF batch = <<>> THEN Returned({s})
        ELSE IF bad # {}
        THEN IF NotFileable(batch[Least(bad)].ts, s.quarter, s.year)
             THEN Thrown(kept, "not fileable")
             ELSE IF SeenInBatch(batch, Least(bad))
             THEN Thrown(kept, "duplicate in batch")
             ELSE Thrown(kept, "already exists")
        ELSE Returned({refreshSummary([s EXCEPT !.invoices = l]) :
                        l \in SortByTimestamp(s.invoices \o batch)})

addInvoices(s, batch) ==
    LET bad == {i \in 1..Len(batch) :
                    \/ NotFileable(batch[i].ts, s.quarter, s.year)
                    \/ SeenInBatch(batch, i)
                    \/ doesInvoiceExist(s, batch[i].num)}
    IN  IF batch = <<>> THEN Returned({s})
        ELSE IF bad # {}
        THEN IF NotFileable(batch[Least(bad)].ts, s.quarter, s.year)
             THEN Thrown(s, "not fileable")
             ELSE IF SeenInBatch(batch, Least(bad))
             THEN Thrown(s, "duplicate in batch")
             ELSE Thrown(s, "already exists")
        ELSE Returned({refreshSummary([s EXCEPT !.invoices = l]) :
                        l \in SortByTimestamp(s.invoices \o batch)})

clearInvoices(s) == Returned({refreshSummary([s EXCEPT !.invoices = <<>>])})

RemoveAt(list, i) == SubSeq(list, 1, i - 1) \o SubSeq(list, i + 1, Len(list))

\* (variant) removeInvoiceByNumber without the test of index === -1:
\* splice(-1, 1) takes the last invoice away
removeInvoiceByNumber_NoFoundCheck(s, num) ==
    IF num = "" THEN Thrown(s, "blank number")
    ELSE IF s.invoices = <<>> THEN Thrown(s, "no invoices")
    ELSE LET found == {i \in 1..Len(s.invoices) : s.invoices[i].num = num}
             index == IF found = {} THEN Len(s.invoices) ELSE Least(found)
         IN  Returned({refreshSummary([s EXCEPT !.invoices = RemoveAt(@, index)])})

\* num = "" stands for a blank invoice number
removeInvoiceByNumber(s, num) ==
    IF num = "" THEN Thrown(s, "blank number")
    ELSE IF s.invoices = <<>> THEN Thrown(s, "no invoices")
    ELSE IF ~doesInvoiceExist(s, num) THEN Thrown(s, "not found")
    ELSE LET index == Least({i \in 1..Len(s.invoices) : s.invoices[i].num = num})
         IN  Returned({refreshSummary([s EXCEPT !.invoices = RemoveAt(@, index)])})

setQuarter(s, q) ==
    IF q \notin QuarterPeriod THEN Thrown(s, "invalid quarter")
    ELSE Returned({refreshSummary([s EXCEPT !.quarter = q])})

setYear(s, y) ==
    IF y < 1800 \/ y > 3000 THEN Thrown(s, "invalid year")
    ELSE Returned({refreshSummary([s EXCEPT !.year = y])})

\* (variant) getInvoicesFromQuarter with the bounds of the range left out
getInvoicesFromQuarter_ExclusiveBounds(s, q) ==
    LET targetQuarter == IF q = "undefined" THEN s.summary.quarter ELSE q
    IN  IF targetQuarter \notin QuarterPeriod
        THEN [result |-> "invalid quarter", got |-> <<>>]
        ELSE IF s.invoices = <<>> THEN [result |-> "ok", got |-> <<>>]
        ELSE [result |-> "ok",
              got |-> SelectSeq(s.invoices, LAMBDA inv :
                        /\ DateGT(inv.ts, getQuarterDateRange(targetQuarter, s.year)[1])
                        /\ DateLT(inv.ts, getQuarterDateRange(targetQuarter, s.year)[2]))]

\* q = "undefined" stands for a call without argument
getInvoicesFromQuarter(s, q) ==
    LET targetQuarter == IF q = "undefined" THEN s.summary.quarter ELSE q
    IN  IF targetQuarter \notin QuarterPeriod
        THEN [result |-> "invalid quarter", got |-> <<>>]
        ELSE IF s.invoices = <<>> THEN [result |-> "ok", got |-> <<>>]
        ELSE [result |-> "ok",
              got |-> SelectSeq(s.invoices, LAMBDA inv :
                        /\ DateGE(inv.ts, getQuarterDateRange(targetQuarter, s.year)[1])
                        /\ DateLE(inv.ts, getQuarterDateRange(targetQuarter, s.year)[2]))]

\* type = "" stands for a blank string
setIncomeTaxType(s, type) ==
    IF type = "" THEN Thrown(s, "blank type")
    ELSE Returned({refreshSummary([s EXCEPT !.incomeTaxType = type])})

---------------------------------------------------------------------------
(* The session as a state machine *)

PeriodStart == getQuarterDateRange(quarter, year)[1]
PeriodEnd == getQuarterDateRange(quarter, year)[2]

\* the instant ts is earlier than PeriodStart or later than PeriodEnd
OutsidePeriod(ts) ==
    ts.valid /\ (TimeLess(ts, PeriodStart) \/ TimeLess(PeriodEnd, ts))
\* the instant ts lies in the closed range [PeriodStart, PeriodEnd]
InsidePeriod(ts) ==
    ts.valid /\ ~TimeLess(ts, PeriodStart) /\ ~TimeLess(PeriodEnd, ts)

Held(num) == \E i \in 1..Len(invoices) : invoices[i].num = num

\* What a call's argument is like in the state it is made in; sessLast
\* records it so that a state tells which case the last call was.
InvoiceCase(inv) ==
    {c \in {"held", "outside", "start", "end"} :
        \/ c = "held" /\ Held(inv.num)
        \/ c = "outside" /\ OutsidePeriod(inv.ts)
        \/ c = "start" /\ inv.ts = PeriodStart
        \/ c = "end" /\ inv.ts = PeriodEnd}

BatchCase(batch) ==
    {c \in {"held", "outside", "repeats"} :
        \/ c = "held" /\ \E i \in 1..Len(batch) : Held(batch[i].num)
        \/ c = "outside" /\ \E i \in 1..Len(batch) : OutsidePeriod(batch[i].ts)
        \/ c = "repeats" /\ \E i, j \in 1..Len(batch) :
                                i < j /\ batch[i].num = batch[j].num}

\* BuwisFriend.initialize(userID, taxpayer, quarter, year)
SessionInitialized ==
    /\ quarter \in Quarters
    /\ year \in Years
    /\ incomeTaxType = "GRADUATED"
    /\ invoices = <<>>
    /\ summary = SummaryInitialize(quarter, year, "GRADUATED")
    /\ sessLast = [op |-> "initialize", result |-> "ok", arg |-> {},
                   kept |-> {}, got |-> <<>>]

\* The call `op`, its argument of the kind `case`, ends in one of `outcomes`.
SessionCall(op, case, outcomes) ==
    \E o \in outcomes :
        /\ quarter' = o.s.quarter
        /\ year' = o.s.year
        /\ incomeTaxType' = o.s.incomeTaxType
        /\ invoices' = o.s.invoices
        /\ summary' = o.s.summary
        /\ sessLast' = [op |-> op, result |-> o.result, arg |-> case,
                        kept |-> {k \in {"invoices", "summary"} :
                                    \/ k = "invoices" /\ o.s.invoices = invoices
                                    \/ k = "summary" /\ o.s.summary = summary},
                        got |-> <<>>]
        /\ UNCHANGED <<invVars, libVars>>

AddInvoice(inv) ==
    SessionCall("addInvoice", InvoiceCase(inv), addInvoice(Session, inv))
AddInvoices(batch) ==
    SessionCall("addInvoices", BatchCase(batch), addInvoices(Session, batch))
UpdateInvoices(batch) ==
    SessionCall("updateInvoices", BatchCase(batch), updateInvoices(Session, batch))
ClearInvoices == SessionCall("clearInvoices", {}, clearInvoices(Session))
RemoveInvoiceByNumber(num) ==
    SessionCall("removeInvoiceByNumber", {}, removeInvoiceByNumber(Session, num))
SetQuarter(q) == SessionCall("setQuarter", {}, setQuarter(Session, q))
SetYear(y) == SessionCall("setYear", {}, setYear(Session, y))
SetIncomeTaxType(type) ==
    SessionCall("setIncomeTaxType", {}, setIncomeTaxType(Session, type))

\* a query: the session stays as it is, sessLast keeps what was returned
GetInvoicesFromQuarter(q) ==
    /\ sessLast' = [op |-> "getInvoicesFromQuarter",
                    result |-> getInvoicesFromQuarter(Session, q).result,
                    arg |-> {q}, kept |-> {"invoices", "summary"},
                    got |-> getInvoicesFromQuarter(Session, q).got]
    /\ UNCHANGED <<quarter, year, incomeTaxType, invoices, summary>>
    /\ UNCHANGED <<invVars, libVars>>

NextSession ==
    \/ \E inv \in InvoiceUniverse : AddInvoice(inv)
    \/ \E batch \in Batches \cup {<<>>} : AddInvoices(batch)
    \/ \E batch \in Batches \cup {<<>>} : UpdateInvoices(batch)
    \/ ClearInvoices
    \/ \E num \in InvoiceNumbers \cup {""} : RemoveInvoiceByNumber(num)
    \/ \E q \in Quarters \cup {"Q5"} : SetQuarter(q)
    \/ \E y \in Years \cup {1799, 3001} : SetYear(y)
    \/ \E type \in IncomeTaxType \cup {""} : SetIncomeTaxType(type)
    \/ \E q \in {"undefined", "Q4", "Q5"} : GetInvoicesFromQuarter(q)

---------------------------------------------------------------------------
(* Claims about the session *)

Failed == sessLast.result # "ok"

\* C1: every invoice held by the session has its issue timestamp inside the
\* range of the session's current quarter and year, and no two held invoices
\* share an invoice number.
C1_HeldInvoicesInPeriodAndUnique ==
    /\ \A i \in 1..Len(invoices) : InsidePeriod(invoices[i].ts)
    /\ \A i, j \in 1..Len(invoices) : invoices[i].num = invoices[j].num => i = j

\* C2: addInvoice with an invoice whose number is already held fails with an
\* error and leaves the invoice list (members and order) as it was.
C2_DuplicateAddInvoiceFails ==
    (sessLast.op = "addInvoice" /\ "held" \in sessLast.arg)
        => (Failed /\ "invoices" \in sessLast.kept)

C2_Witness ==
    /\ sessLast.op = "addInvoice"
    /\ "held" \in sessLast.arg
    /\ sessLast.result = "already exists"
    /\ Len(invoices) = 2

\* C3: addInvoice with an invoice stamped before the start or after the end
\* of the current quarter range fails and leaves invoice list and summary
\* unchanged; an invoice (with a number not yet held) stamped exactly at the
\* start or at the end instant is accepted and held.
C3_AddInvoicePeriodBoundsInclusive ==
    sessLast.op = "addInvoice" =>
        /\ "outside" \in sessLast.arg
            => (Failed /\ sessLast.kept = {"invoices", "summary"})
        /\ ("start" \in sessLast.arg /\ "held" \notin sessLast.arg)
            => /\ sessLast.result = "ok"
               /\ \E i \in 1..Len(invoices) : invoices[i].ts = PeriodStart
        /\ ("end" \in sessLast.arg /\ "held" \notin sessLast.arg)
            => /\ sessLast.result = "ok"
               /\ \E i \in 1..Len(invoices) : invoices[i].ts = PeriodEnd

C3_Witness ==
    /\ sessLast.op = "addInvoice"
    /\ sessLast.result = "ok"
    /\ "end" \in sessLast.arg
    /\ Len(invoices) = 2
    /\ invoices[1].ts = PeriodStart
    /\ invoices[2].ts = PeriodEnd

C3_WitnessRejected ==
    /\ sessLast.op = "addInvoice"
    /\ sessLast.arg = {"outside"}
    /\ sessLast.result = "not fileable"
    /\ invoices # <<>>

\* C4: addInvoices and updateInvoices are all-or-nothing: a batch with an
\* invoice outside the filing period, or repeating an invoice number of the
\* batch, or (addInvoices) repeating a number already held, makes the call
\* fail with the invoice list and the summary exactly as before.
C4_BatchAllOrNothing ==
    /\ ( /\ sessLast.op = "addInvoices"
         /\ sessLast.arg \cap {"outside", "repeats", "held"} # {} )
            => (Failed /\ sessLast.kept = {"invoices", "summary"})
    /\ ( /\ sessLast.op = "updateInvoices"
         /\ sessLast.arg \cap {"outside", "repeats"} # {} )
            => (Failed /\ sessLast.kept = {"invoices", "summary"})

C4_Witness ==
    /\ sessLast.op = "addInvoices"
    /\ sessLast.arg = {"held"}
    /\ sessLast.result = "already exists"
    /\ summary.totals.count = 1

C4_WitnessUpdate ==
    /\ sessLast.op = "updateInvoices"
    /\ "repeats" \in sessLast.arg
    /\ sessLast.result = "duplicate in batch"
    /\ summary.totals.count = 2

\* the summary rebuilt from the invoices held, under the current period and regime
RebuiltSummary ==
    SummaryUpdateInvoices(SummaryInitialize(quarter, year, incomeTaxType), invoices)

\* C5: after every session call the summary is the one rebuilt from the
\* invoice list held, under the session's current quarter, year and regime
\* (for an empty list: zero totals under the current identity fields).
C5_SummaryNeverStale == summary = RebuiltSummary

\* what C5 says of the totals alone
C5_TotalsNeverStale == summary.totals = RebuiltSummary.totals

\* What a step of removeInvoiceByNumber(num) has to be: a failure with the
\* list as it was when there is nothing to remove, and else the list without
\* the invoice numbered num, one shorter, under a rebuilt summary.
RemovedOrRefused(num) ==
    IF num = "" \/ invoices = <<>> \/ ~Held(num)
    THEN /\ sessLast'.result # "ok"
         /\ invoices' = invoices
    ELSE /\ sessLast'.result = "ok"
         /\ invoices' = SelectSeq(invoices, LAMBDA inv : inv.num # num)
         /\ Len(invoices') = Len(invoices) - 1
         /\ summary' = RebuiltSummary'
         /\ invoices' = <<>> => summary'.totals = ZeroTotals

C23_WitnessLast ==
    /\ sessLast.op = "removeInvoiceByNumber"
    /\ sessLast.result = "ok"
    /\ invoices = <<>>
    /\ "summary" \notin sessLast.kept
    /\ summary.totals = ZeroTotals

\* a number that is not held was refused
C23_WitnessRefused ==
    /\ sessLast.op = "removeInvoiceByNumber"
    /\ sessLast.result = "not found"
    /\ invoices # <<>>

\* C24: getInvoicesFromQuarter() without argument never throws and returns
\* exactly the held invoices whose timestamp lies in the range of the
\* session's current quarter and year, also after setQuarter and setYear.
C24_QuarterQueryUsesCurrentPeriod ==
    (sessLast.op = "getInvoicesFromQuarter" /\ sessLast.arg = {"undefined"})
        => /\ sessLast.result = "ok"
           /\ sessLast.got = SelectSeq(invoices, LAMBDA inv : InsidePeriod(inv.ts))

\* the period was moved with an invoice held; the query gave only the one of
\* the new period, stamped at its very start
C24_Witness ==
    /\ sessLast.op = "getInvoicesFromQuarter"
    /\ sessLast.arg = {"undefined"}
    /\ Len(invoices) = 2
    /\ Len(sessLast.got) = 1
    /\ sessLast.got[1].ts = PeriodStart

\* a query in a period without invoices, which the summary has not followed
C24_WitnessStaleSummary ==
    /\ sessLast.op = "getInvoicesFromQuarter"
    /\ sessLast.arg = {"undefined"}
    /\ summary.quarter # quarter
    /\ sessLast.got = <<>>

\* C26: an invoice whose timestamp is not a valid date is never admitted:
\* addInvoice, addInvoices and updateInvoices each reject it, so the session
\* never holds one.
C26_InvalidTimestampNeverAdmitted ==
    /\ \A i \in 1..Len(invoices) : invoices[i].ts.valid
    /\ (sessLast.op \in {"addInvoice", "addInvoices", "updateInvoices"}
            /\ sessLast.result = "ok")
        => \A i \in 1..Len(invoices) : invoices[i].ts # InvalidDate

\* the list is in ascending order of issue timestamp
SortedAscending(list) ==
    \A i, j \in 1..Len(list) : i < j => DateLE(list[i].ts, list[j].ts)

\* the batches of two invoices with different timestamps
DistinctlyStamped(T) ==
    {batch \in [1..2 -> [num : InvoiceNumbers, ts : T]] : batch[1].ts # batch[2].ts}

Swapped(batch) == <<batch[2], batch[1]>>

\* the sessions a call may leave, and whether it returned
Left(outcomes) == {[returned |-> o.result = "ok", s |-> o.s] : o \in outcomes}

\* the batch call gives the same in either order of the batch
OrderIndependent(batch) ==
    /\ Left(addInvoices(Session, batch)) = Left(addInvoices(Session, Swapped(batch)))
    /\ Left(updateInvoices(Session, batch)) = Left(updateInvoices(Session, Swapped(batch)))

\* C22: after any sequence of addInvoice, addInvoices, updateInvoices,
\* removeInvoiceByNumber and clearInvoices the invoice list is sorted ascending
\* by issue timestamp, and addInvoices / updateInvoices of a batch with pairwise
\* distinct timestamps give the same result for every order of the batch.
C22_SortedAndOrderIndependent ==
    /\ SortedAscending(invoices)
    /\ \A batch \in DistinctlyStamped(Timestamps) : OrderIndependent(batch)

\* what C22 says of the lists and batches whose timestamps are all valid dates
C22_SortedAndOrderIndependentOnValidDates ==
    /\ (\A i \in 1..Len(invoices) : invoices[i].ts.valid)
            => SortedAscending(invoices)
    /\ (\A i \in 1..Len(invoices) : invoices[i].ts.valid)
            => \A batch \in DistinctlyStamped(Timestamps \ {InvalidDate}) :
                    OrderIndependent(batch)

\* a batch of two was held, the later of the two given first
C22_WitnessOnValidDates ==
    /\ sessLast.op \in {"addInvoices", "updateInvoices"}
    /\ sessLast.result = "ok"
    /\ Len(invoices) = 2
    /\ invoices[1].ts.valid /\ invoices[2].ts.valid
    /\ invoices[1].ts # invoices[2].ts
    /\ Left(updateInvoices(Session, Swapped(invoices))) =
            Left(updateInvoices(Session, invoices))


---------------------------------------------------------------------------
(* DigitalInvoice: amounts in centavos, rates in percent *)

InvoiceVATType == {"VAT", "Non-VAT"}
VATSubType == {"Standard", "Exempt", "Zero-rated"}

\* defaultTaxRates and defaultSCPWDDiscount
DefaultRateVAT == 12
DefaultRatePercentageTax == 3
DefaultRateWithholding == 5
defaultSCPWDDiscount == 20

\* discount.other is kept as a fraction: an order handed to the constructor
\* may name any number, and a recomputation rounds it only when it stores it
ZeroDiscount == [scPWD |-> 0, other |-> Whole(0), totalDiscount |-> 0]

ZeroVAT(rate, inclusive, subtype) ==
    [rate |-> rate, isVATInclusive |-> inclusive, vatSubtype |-> subtype,
     totalVAT |-> 0, salesVATable |-> 0, vatExemptSales |-> 0,
     vatZeroRatedSales |-> 0, totalSalesVATInclusive |-> 0]

\* the order.breakdown that DigitalInvoice.initialize(type) builds
InitialBreakdown(type) ==
    [totalSales |-> 0, netReceivable |-> 0, discount |-> ZeroDiscount,
     totalAmountDue |-> 0, salesPT |-> 0, exemptSales |-> 0,
     vat |-> ZeroVAT(IF type = "VAT" THEN DefaultRateVAT ELSE 0, TRUE, "Standard"),
     percentageTax |->
        [rate |-> IF type = "Non-VAT" THEN DefaultRatePercentageTax ELSE 0,
         totalPercentageTax |-> 0],
     withholdingTax |-> [rate |-> DefaultRateWithholding, totalWithheldTax |-> 0]]

Invoice == [type |-> invType, orders |-> orders, oscaPWDNumber |-> oscaPWDNumber,
            breakdown |-> breakdown]

\* customer.oscaPWDNumber: "" is undefined or null, " " a blank string
isEligibleForScPwdDiscount(inv) == inv.oscaPWDNumber \notin {"", " "}

RECURSIVE SumAmounts(_)
SumAmounts(list) ==
    IF list = <<>> THEN 0 ELSE list[1] + SumAmounts(Tail(list))

\* x || d on numbers: 0 is falsy
OrElse(x, d) == IF x = 0 THEN d ELSE x

\* the no-items branch of computeBreakdown
\* (variant) a no-items branch that keeps the rates it finds
NoItemsBreakdown_KeepsRates(inv) ==
    LET old == inv.breakdown
    IN  [totalSales |-> 0, netReceivable |-> 0, discount |-> ZeroDiscount,
         withholdingTax |-> [old.withholdingTax EXCEPT !.totalWithheldTax = 0],
         totalAmountDue |-> 0, salesPT |-> 0, exemptSales |-> 0,
         vat |-> ZeroVAT(old.vat.rate, old.vat.isVATInclusive, "Standard"),
         percentageTax |->
            [rate |-> old.percentageTax.rate, totalPercentageTax |-> 0]]

NoItemsBreakdown(inv) ==
    LET isVAT == inv.type = "VAT"
        old == inv.breakdown
    IN  [totalSales |-> 0, netReceivable |-> 0, discount |-> ZeroDiscount,
         withholdingTax |-> [old.withholdingTax EXCEPT !.totalWithheldTax = 0],
         totalAmountDue |-> 0, salesPT |-> 0, exemptSales |-> 0,
         vat |-> ZeroVAT(IF isVAT THEN DefaultRateVAT ELSE 0,
                         old.vat.isVATInclusive, "Standard"),
         percentageTax |->
            [rate |-> IF isVAT THEN 0 ELSE DefaultRatePercentageTax,
             totalPercentageTax |-> 0]]

\* the SC/PWD discount step: the discount the computation goes on with
ScPwdDiscountStep(inv, netSales, vatRate) ==
    IF isEligibleForScPwdDiscount(inv)
    THEN IF inv.type = "VAT" /\ inv.breakdown.vat.isVATInclusive
         THEN Times(Over(netSales, Plus(Whole(1), Percent(vatRate))),
                    Percent(defaultSCPWDDiscount))
         ELSE Times(netSales, Percent(defaultSCPWDDiscount))
    ELSE Whole(inv.breakdown.discount.scPWD)

\* the Non-VAT branch of computeBreakdown
NonVATBreakdown(inv) ==
    LET old == inv.breakdown
        totalSales == Whole(SumAmounts(inv.orders))
        other == old.discount.other
        netSales == Minus(totalSales, other)
        scPWD == ScPwdDiscountStep(inv, netSales, 0)
        totalDiscount == Plus(scPWD, other)
        salesLessScPwdDiscounts == Minus(netSales, scPWD)
        whtRate == OrElse(old.withholdingTax.rate, 0)
        totalWithheldTaxNonVAT == Times(netSales, Percent(whtRate))
        ptRate == OrElse(old.percentageTax.rate, DefaultRatePercentageTax)
        totalPercentageTax == Times(salesLessScPwdDiscounts, Percent(ptRate))
        netReceivableNonVAT ==
            Minus(Minus(netSales, totalWithheldTaxNonVAT), totalPercentageTax)
        totalAmountPayableNonVAT == Minus(netSales, totalWithheldTaxNonVAT)
    IN  [totalSales |-> round(totalSales),
         discount |-> [scPWD |-> round(scPWD), other |-> Whole(round(other)),
                       totalDiscount |-> round(totalDiscount)],
         netReceivable |-> round(netReceivableNonVAT),
         withholdingTax |-> [rate |-> whtRate,
                             totalWithheldTax |-> round(totalWithheldTaxNonVAT)],
         totalAmountDue |-> round(totalAmountPayableNonVAT),
         salesPT |-> IF Positive(scPWD) THEN round(salesLessScPwdDiscounts)
                     ELSE round(netSales),
         exemptSales |-> 0,
         vat |-> ZeroVAT(0, old.vat.isVATInclusive, "Standard"),
         percentageTax |-> [rate |-> ptRate,
                            totalPercentageTax |-> round(totalPercentageTax)]]

\* the VAT branch of computeBreakdown
VATBreakdown(inv) ==
    LET old == inv.breakdown
        isVATInclusive == old.vat.isVATInclusive
        totalSales == Whole(SumAmounts(inv.orders))
        other == old.discount.other
        netSales == Minus(totalSales, other)
        vatRate == OrElse(old.vat.rate, DefaultRateVAT)
        vatMultiplier == Plus(Whole(1), Percent(vatRate))
        vatSubtype == old.vat.vatSubtype
        scPWD == ScPwdDiscountStep(inv, netSales, vatRate)
        totalDiscount == Plus(scPWD, other)
        whtRate == OrElse(old.withholdingTax.rate, 0)
        standard == vatSubtype \notin {"Exempt", "Zero-rated"}
        baseAmount ==
            IF ~standard THEN Whole(0)
            ELSE IF isVATInclusive THEN Over(netSales, vatMultiplier)
            ELSE Minus(netSales, scPWD)
        vatExemptSales ==
            IF vatSubtype = "Exempt" THEN netSales
            ELSE IF standard /\ isVATInclusive THEN scPWD
            ELSE Whole(0)
        vatZeroRatedSales == IF vatSubtype = "Zero-rated" THEN netSales ELSE Whole(0)
        salesVATable ==
            IF ~standard THEN Whole(0)
            ELSE IF isVATInclusive THEN Minus(baseAmount, vatExemptSales)
            ELSE baseAmount
        totalVAT == Times(salesVATable, Percent(vatRate))
        totalSalesVATInclusive ==
            IF isVATInclusive THEN netSales ELSE Plus(salesVATable, totalVAT)
        totalWithheldTaxVAT == Times(baseAmount, Percent(whtRate))
        netReceivableVAT == Minus(baseAmount, totalWithheldTaxVAT)
        totalAmountDuePayable == Minus(totalSalesVATInclusive, totalWithheldTaxVAT)
    IN  [totalSales |-> round(totalSales),
         discount |-> [scPWD |-> round(scPWD), other |-> Whole(round(other)),
                       totalDiscount |-> round(totalDiscount)],
         netReceivable |-> round(netReceivableVAT),
         withholdingTax |-> [rate |-> whtRate,
                             totalWithheldTax |-> round(totalWithheldTaxVAT)],
         totalAmountDue |-> round(totalAmountDuePayable),
         salesPT |-> 0,
         exemptSales |-> 0,
         vat |-> [rate |-> vatRate, isVATInclusive |-> isVATInclusive,
                  vatSubtype |-> vatSubtype,
                  totalVAT |-> round(totalVAT),
                  salesVATable |-> round(salesVATable),
                  vatExemptSales |-> round(vatExemptSales),
                  vatZeroRatedSales |-> round(vatZeroRatedSales),
                  totalSalesVATInclusive |-> round(totalSalesVATInclusive)],
         percentageTax |-> [rate |-> 0, totalPercentageTax |-> 0]]

\* (variant) a computation that falls back to the Standard subtype, as the
\* branch without order lines does
computeBreakdown_StandardOnly(inv) ==
    [inv EXCEPT !.breakdown =
        IF inv.orders = <<>> THEN NoItemsBreakdown(inv)
        ELSE IF inv.type = "VAT"
        THEN VATBreakdown([inv EXCEPT !.breakdown.vat.vatSubtype = "Standard"])
        ELSE NonVATBreakdown(inv)]

\* computeBreakdown: the invoice with its breakdown computed anew
computeBreakdown(inv) ==
    [inv EXCEPT !.breakdown =
        IF inv.orders = <<>> THEN NoItemsBreakdown(inv)
        ELSE IF inv.type = "VAT" THEN VATBreakdown(inv)
        ELSE NonVATBreakdown(inv)]

---------------------------------------------------------------------------
(* DigitalInvoice operations: each gives how the call ends and the invoice  *)
(* it leaves, which an operation that throws after an assignment changes.   *)

Threw(inv, err) == [result |-> err, inv |-> inv]
Done(inv) == [result |-> "ok", inv |-> inv]

\* input: [issuerOk, type, vat, percentageTax]; issuerOk is false for an
\* issuer whose name, TIN, business name or address is not valid
loadTaxpayerInfo(inv, input) ==
    IF ~input.issuerOk THEN Threw(inv, "invalid taxpayer")
    ELSE IF input.type = "VAT"
    THEN Done([inv EXCEPT !.breakdown.vat.rate = input.vat])
    ELSE Done([inv EXCEPT !.breakdown.percentageTax.rate = input.percentageTax])

\* (variant) a change of type that leaves both tax blocks as they are
setInvoiceVATType_NoReset(inv, input) ==
    IF input = "" THEN Threw(inv, "blank type")
    ELSE Done([inv EXCEPT !.type = input])

setInvoiceVATType(inv, input) ==
    IF input = "" THEN Threw(inv, "blank type")
    ELSE IF input = "Non-VAT"
    THEN Done([inv EXCEPT
                !.breakdown.vat =
                    ZeroVAT(0, inv.breakdown.vat.isVATInclusive, "Standard"),
                !.type = input])
    ELSE IF input = "VAT"
    THEN Done([inv EXCEPT
                !.breakdown.percentageTax = [rate |-> 0, totalPercentageTax |-> 0],
                !.type = input])
    ELSE Done([inv EXCEPT !.type = input])

setCustomerOSCAPWDNumber(inv, input) ==
    Done(computeBreakdown([inv EXCEPT !.oscaPWDNumber = input]))

setRateVAT(inv, input) ==
    IF inv.type # "VAT"
    THEN Threw([inv EXCEPT !.breakdown.vat.rate = 0], "no VAT rates")
    ELSE Done(computeBreakdown([inv EXCEPT !.breakdown.vat.rate = input]))

setRatePercentageTax(inv, input) ==
    IF inv.type # "Non-VAT"
    THEN Threw([inv EXCEPT !.breakdown.percentageTax.rate = 0],
               "no percentage tax rates")
    ELSE Done(computeBreakdown(
                [inv EXCEPT !.breakdown.percentageTax.rate = input]))

setRateWithholding(inv, input) ==
    Done(computeBreakdown([inv EXCEPT !.breakdown.withholdingTax.rate = input]))

disableWithholdingTax(inv) ==
    Done(computeBreakdown([inv EXCEPT !.breakdown.withholdingTax.rate = 0]))

disablePercentageTax(inv) ==
    Done(computeBreakdown([inv EXCEPT !.breakdown.percentageTax.rate = 0]))

resetPercentageTax(inv) ==
    Done(computeBreakdown(
            [inv EXCEPT !.breakdown.percentageTax.rate = DefaultRatePercentageTax]))

setListOrders(inv, list) == Done(computeBreakdown([inv EXCEPT !.orders = list]))

clearListOrders(inv) == Done(computeBreakdown([inv EXCEPT !.orders = <<>>]))

\* bool: "true", "false" or "undefined" (the argument left out)
toggleVATInclusive(inv, bool) ==
    IF inv.type # "VAT" THEN Threw(inv, "no VAT")
    ELSE Done(computeBreakdown(
                [inv EXCEPT !.breakdown.vat.isVATInclusive =
                    (bool = "true") \/ ~inv.breakdown.vat.isVATInclusive]))

---------------------------------------------------------------------------
(* Payment information.  A detail that is undefined is the empty sequence,  *)
(* one that is there the sequence of its value.                             *)

InvoicePaymentMethod == {"Cash", "Bank", "E-Wallet", "Check"}

Absent == <<>>
Present(value) == <<value>>

\* the payment of DigitalInvoice.initialize, and of the constructor without one
DefaultPayment ==
    [method |-> "Cash", bank |-> Absent, check |-> Absent,
     referenceNumber |-> Absent]

\* what `this.payment.bank ??=` and `this.payment.check ??=` put
DefaultBank ==
    [name |-> "Bank ABC", accountNumber |-> "10000001", branch |-> "Branch XYZ",
     code |-> "A0000Z", address |-> "123 DEF City"]
DefaultCheck == [number |-> "Bank ABC", date |-> "now"]

\* a is there ? a : b
OrDefault(a, b) == IF a = Absent THEN b ELSE a[1]

PaymentThrew(p, err) == [result |-> err, payment |-> p]
PaymentDone(p) == [result |-> "ok", payment |-> p]

\* input = "" stands for a blank string
setPaymentMethod(p, input) ==
    IF input = "" THEN PaymentThrew(p, "blank method")
    ELSE IF input = "Cash"
    THEN PaymentDone([p EXCEPT !.check = Absent, !.bank = Absent,
                               !.referenceNumber = Absent, !.method = input])
    ELSE IF input = "Bank"
    THEN PaymentDone([p EXCEPT !.check = Absent, !.method = input])
    ELSE IF input = "Check"
    THEN PaymentDone([p EXCEPT !.bank = Absent, !.referenceNumber = Absent,
                               !.method = input])
    ELSE IF input = "E-Wallet"
    THEN PaymentDone([p EXCEPT !.check = Absent, !.method = input])
    ELSE PaymentDone([p EXCEPT !.method = input])

\* setPaymentBankName, setPaymentBankAccountNumber, setPaymentBankBranch,
\* setPaymentBankCode and setPaymentBankAddress: the same but for the field
setPaymentBank(p, field, input) ==
    IF p.method = "Cash"
    THEN PaymentThrew([p EXCEPT !.bank = Absent], "no bank information")
    ELSE IF input = "" THEN PaymentThrew(p, "blank input")
    ELSE PaymentDone([p EXCEPT !.bank =
            Present([OrDefault(p.bank, DefaultBank) EXCEPT ![field] = input])])

\* setPaymentCheckNumber and setPaymentCheckDate
setPaymentCheck(p, field, input) ==
    IF p.method = "Cash"
    THEN PaymentThrew([p EXCEPT !.check = Absent], "no check information")
    ELSE IF input = "" THEN PaymentThrew(p, "blank input")
    ELSE PaymentDone([p EXCEPT !.check =
            Present([OrDefault(p.check, DefaultCheck) EXCEPT ![field] = input])])

setPaymentReferenceNumber(p, input) ==
    IF p.method \in {"E-Wallet", "Bank"}
    THEN IF input = ""
         THEN PaymentThrew([p EXCEPT !.referenceNumber = Absent], "blank input")
         ELSE PaymentDone([p EXCEPT !.referenceNumber = Present(input)])
    ELSE PaymentThrew([p EXCEPT !.referenceNumber = Absent], "no reference number")

---------------------------------------------------------------------------
(* The invoice as a state machine *)

\* order lines: none, the 10,000.00 and the 11,200.00 of the specification's
\* examples, and two lines of 5.25 whose taxes fall on half a centavo
OrderLists == {<<>>, <<1000000>>, <<1120000>>, <<525, 525>>}
\* a discount other than the SC/PWD one, which only an order handed to the
\* constructor carries: none, or 0.506 (a number is not bound to centavos)
OtherDiscounts == {Whole(0), Frac(253, 5)}
RatesVAT == {0, 12}
RatesPercentageTax == {0, 1}
RatesWithholding == {0, 5}
OSCAPWDNumbers == {"", " ", "SC-1"}
TaxpayerInputs ==
    [issuerOk : BOOLEAN, type : InvoiceVATType, vat : {12},
     percentageTax : {1}]

\* DigitalInvoice.initialize(id, type), or new DigitalInvoice(...) with a
\* customer who may have an OSCA/PWD number and an order that has no lines
\* and names another discount
InvoiceMade ==
    /\ origin \in {"initialize", "constructor"}
    /\ invType \in InvoiceVATType
    /\ orders = <<>>
    /\ oscaPWDNumber \in {"", "SC-1"}
    /\ origin = "initialize" => oscaPWDNumber = ""
    /\ \E d \in OtherDiscounts :
        /\ origin = "initialize" => d = Whole(0)
        /\ breakdown = [InitialBreakdown(invType) EXCEPT
                            !.discount = [scPWD |-> 0, other |-> d,
                                          totalDiscount |-> round(d)]]
    /\ payment = DefaultPayment
    /\ invLast = [op |-> origin, arg |-> "", result |-> "ok",
                  other |-> breakdown.discount.other]

\* The call `op` ends as `outcome` says.
InvoiceCallOn(op, arg, outcome) ==
    \E o \in {outcome} :
        /\ invType' = o.inv.type
        /\ orders' = o.inv.orders
        /\ oscaPWDNumber' = o.inv.oscaPWDNumber
        /\ breakdown' = o.inv.breakdown
        /\ invLast' = [op |-> op, arg |-> arg, result |-> o.result,
                       other |-> breakdown.discount.other]
        /\ UNCHANGED <<origin, payment, sessVars, libVars>>

InvoiceCall(op, outcome) == InvoiceCallOn(op, "", outcome)

LoadTaxpayerInfo(input) ==
    InvoiceCall("loadTaxpayerInfo", loadTaxpayerInfo(Invoice, input))
SetInvoiceVATType(input) ==
    InvoiceCall("setInvoiceVATType", setInvoiceVATType(Invoice, input))
SetCustomerOSCAPWDNumber(input) ==
    InvoiceCall("setCustomerOSCAPWDNumber", setCustomerOSCAPWDNumber(Invoice, input))
SetRateVAT(input) == InvoiceCall("setRateVAT", setRateVAT(Invoice, input))
SetRatePercentageTax(input) ==
    InvoiceCall("setRatePercentageTax", setRatePercentageTax(Invoice, input))
SetRateWithholding(input) ==
    InvoiceCall("setRateWithholding", setRateWithholding(Invoice, input))
DisableWithholdingTax ==
    InvoiceCall("disableWithholdingTax", disableWithholdingTax(Invoice))
DisablePercentageTax ==
    InvoiceCall("disablePercentageTax", disablePercentageTax(Invoice))
ResetPercentageTax ==
    InvoiceCall("resetPercentageTax", resetPercentageTax(Invoice))
SetListOrders(list) == InvoiceCall("setListOrders", setListOrders(Invoice, list))
ClearListOrders == InvoiceCall("clearListOrders", clearListOrders(Invoice))
ToggleVATInclusive(bool) ==
    InvoiceCallOn("toggleVATInclusive", bool, toggleVATInclusive(Invoice, bool))

NextInvoice ==
    \/ \E input \in TaxpayerInputs : LoadTaxpayerInfo(input)
    \/ \E input \in InvoiceVATType \cup {""} : SetInvoiceVATType(input)
    \/ \E input \in OSCAPWDNumbers : SetCustomerOSCAPWDNumber(input)
    \/ \E input \in RatesVAT : SetRateVAT(input)
    \/ \E input \in RatesPercentageTax : SetRatePercentageTax(input)
    \/ \E input \in RatesWithholding : SetRateWithholding(input)
    \/ DisableWithholdingTax
    \/ DisablePercentageTax
    \/ ResetPercentageTax
    \/ \E list \in OrderLists : SetListOrders(list)
    \/ ClearListOrders
    \/ \E bool \in {"true", "false", "undefined"} : ToggleVATInclusive(bool)

---------------------------------------------------------------------------
(* The two specifications: the session with one untouched invoice beside    *)
(* it, and the invoice with one untouched session beside it.                *)

InvoiceIdle ==
    /\ origin = "initialize"
    /\ invType = "VAT"
    /\ orders = <<>>
    /\ oscaPWDNumber = ""
    /\ breakdown = InitialBreakdown("VAT")
    /\ payment = DefaultPayment
    /\ invLast = [op |-> "initialize", arg |-> "", result |-> "ok",
                  other |-> Whole(0)]

SessionIdle ==
    /\ quarter = "Q1"
    /\ year = 2025
    /\ incomeTaxType = "GRADUATED"
    /\ invoices = <<>>
    /\ summary = SummaryInitialize("Q1", 2025, "GRADUATED")
    /\ sessLast = [op |-> "initialize", result |-> "ok", arg |-> {},
                   kept |-> {}, got |-> <<>>]

\* no function has been called
LibraryIdle ==
    /\ operands = [fn |-> "none"]
    /\ returned = [done |-> FALSE]

InitSession == SessionInitialized /\ InvoiceIdle /\ LibraryIdle

InitInvoice == InvoiceMade /\ SessionIdle /\ LibraryIdle

SpecSession == InitSession /\ [][NextSession]_vars

SpecInvoice == InitInvoice /\ [][NextInvoice]_vars

---------------------------------------------------------------------------
(* Claims about the invoice *)

VATBlockInactive ==
    /\ breakdown.vat.rate = 0
    /\ breakdown.vat.totalVAT = 0
    /\ breakdown.vat.salesVATable = 0
    /\ breakdown.vat.vatExemptSales = 0
    /\ breakdown.vat.vatZeroRatedSales = 0
    /\ breakdown.vat.totalSalesVATInclusive = 0

PercentageTaxBlockInactive ==
    /\ breakdown.percentageTax.rate = 0
    /\ breakdown.percentageTax.totalPercentageTax = 0

\* C6: in every state reachable from DigitalInvoice.initialize by the public
\* setters and loadTaxpayerInfo, the tax block that the invoice's type does
\* not select is inactive: a Non-VAT invoice has a VAT block of rate 0 and
\* totals 0, a VAT invoice a percentage-tax block of rate 0 and total 0.
C6_InactiveBlockIsZero ==
    origin = "initialize" =>
        /\ invType = "Non-VAT" => VATBlockInactive
        /\ invType = "VAT" => PercentageTaxBlockInactive

\* the invoice with the other discount as the last call found it (a
\* recomputation reads it before it stores it rounded)
InvoiceAsFound == [Invoice EXCEPT !.breakdown.discount.other = invLast.other]

\* the operations that change an input of the breakdown
ChangesBreakdownInput ==
    {"setListOrders", "clearListOrders", "setRateVAT", "setRatePercentageTax",
     "setRateWithholding", "disableWithholdingTax", "disablePercentageTax",
     "resetPercentageTax", "setInvoiceVATType", "toggleVATInclusive",
     "setCustomerOSCAPWDNumber"}

\* C7: every operation that changes an input of the breakdown leaves a
\* breakdown equal to a full recomputation from the new inputs; after
\* setInvoiceVATType on an invoice with order lines nothing computed under
\* the previous type remains.
C7_BreakdownAlwaysRecomputed ==
    (invLast.op \in ChangesBreakdownInput /\ invLast.result = "ok")
        => breakdown = computeBreakdown(InvoiceAsFound).breakdown

\* C8: immediately after setInvoiceVATType(NON_VAT) the VAT block has rate 0
\* and all its totals 0, and immediately after setInvoiceVATType(VAT) the
\* percentage-tax block has rate 0 and total 0, whatever was held before.
C8_TypeSwitchResetsBlockLeft ==
    (invLast.op = "setInvoiceVATType" /\ invLast.result = "ok") =>
        /\ invType = "Non-VAT" => VATBlockInactive
        /\ invType = "VAT" => PercentageTaxBlockInactive

\* a switch to Non-VAT of an invoice whose breakdown was computed, with order
\* lines, as a VAT one: no sales subject to percentage tax, tax withheld on
\* less than the net sales
C8_Witness ==
    /\ invLast.op = "setInvoiceVATType"
    /\ invLast.result = "ok"
    /\ invType = "Non-VAT"
    /\ breakdown.totalSales = 1000000
    /\ breakdown.salesPT = 0
    /\ breakdown.netReceivable < 900000
    /\ VATBlockInactive

\* a switch to VAT of an invoice whose breakdown was computed, with order
\* lines, as a Non-VAT one
C8_WitnessToVAT ==
    /\ invLast.op = "setInvoiceVATType"
    /\ invLast.result = "ok"
    /\ invType = "VAT"
    /\ breakdown.salesPT = 1000000
    /\ PercentageTaxBlockInactive

\* the operations that end with computeBreakdown, when they return
Recomputed ==
    /\ invLast.op \in ChangesBreakdownInput \ {"setInvoiceVATType"}
    /\ invLast.result = "ok"

C9_WitnessRateSetter ==
    /\ invLast.op = "setRateWithholding"
    /\ invLast.result = "ok"
    /\ orders = <<>>
    /\ invType = "VAT"
    /\ breakdown.withholdingTax.rate = 0

\* whether the customer has an OSCA/PWD number that is not blank
Eligible == oscaPWDNumber \notin {"", " "}

\* The Non-VAT formulas on the last recomputation, with netSales = sum of the
\* lines - otherDiscount and with the rates the breakdown reports, each amount
\* computed exactly and reported rounded to the centavo; scPwdDiscount is 20%
\* of netSales for an eligible customer and `otherwise` for any other.
NonVATFormulas(otherwise) ==
    (Recomputed /\ invType = "Non-VAT" /\ orders # <<>>) =>
        LET otherDiscount == invLast.other
            netSales == Minus(Whole(SumAmounts(orders)), otherDiscount)
            whtRate == breakdown.withholdingTax.rate
            ptRate == breakdown.percentageTax.rate
            scPwdDiscount ==
                IF Eligible THEN Times(netSales, Frac(20, 100)) ELSE otherwise
            withholdingTax == Times(netSales, Frac(whtRate, 100))
            percentageTax ==
                Times(Minus(netSales, scPwdDiscount), Frac(ptRate, 100))
            noDiscount ==
                otherDiscount = Whole(0) /\ breakdown.discount.totalDiscount = 0
        IN  /\ breakdown.withholdingTax.totalWithheldTax = MathRound(withholdingTax)
            /\ breakdown.percentageTax.totalPercentageTax = MathRound(percentageTax)
            /\ breakdown.netReceivable =
                MathRound(Minus(Minus(netSales, withholdingTax), percentageTax))
            /\ breakdown.totalAmountDue = MathRound(Minus(netSales, withholdingTax))
            /\ (orders = <<1000000>> /\ noDiscount /\ ptRate = 3 /\ whtRate = 5)
                => /\ breakdown.percentageTax.totalPercentageTax = 30000
                   /\ breakdown.withholdingTax.totalWithheldTax = 50000
                   /\ breakdown.netReceivable = 920000
                   /\ breakdown.totalAmountDue = 950000

\* C10: a recomputation of a Non-VAT invoice with order lines gives
\* withholdingTax = netSales * whtRate, percentageTax = (netSales -
\* scPwdDiscount) * ptRate, netReceivable = netSales - withholdingTax -
\* percentageTax and totalAmountDue = netSales - withholdingTax, where
\* scPwdDiscount is the discount of an eligible customer and 0 for any other.
\* Sales of 10,000 at 3% and 5% without discounts give 300, 500, 9,200, 9,500.
C10_NonVATFormulas == NonVATFormulas(Whole(0))

\* the same formulas hold when, for a customer who is not eligible, the
\* discount is the SC/PWD discount that the breakdown still carries
C10_FormulasOnCarriedDiscount == NonVATFormulas(Whole(breakdown.discount.scPWD))

\* the example of the claim
C10_Witness ==
    /\ Recomputed
    /\ invType = "Non-VAT"
    /\ orders = <<1000000>>
    /\ breakdown.discount.totalDiscount = 0
    /\ breakdown.percentageTax.rate = 3
    /\ breakdown.withholdingTax.rate = 5
    /\ breakdown.netReceivable = 920000

\* both discounts: lines of 10.50 less 0.506 are 9.994, of which 2.00 are
\* reported as the SC/PWD discount
C10_WitnessDiscounts ==
    /\ Recomputed
    /\ invType = "Non-VAT"
    /\ orders = <<525, 525>>
    /\ breakdown.discount.other = Whole(51)
    /\ breakdown.discount.scPWD = 200
    /\ breakdown.percentageTax.rate = 3
    /\ breakdown.percentageTax.totalPercentageTax = 24

\* The formulas of a standard VAT invoice on the last recomputation, with the
\* rates the breakdown reports, each amount computed exactly and reported
\* rounded to the centavo; scPwdDiscount is 20% of the base (inclusive) or of
\* netSales (exclusive) for an eligible customer and `otherwise` for any other.
VATStandardFormulas(otherwise) ==
    ( /\ Recomputed
      /\ invType = "VAT"
      /\ breakdown.vat.vatSubtype = "Standard"
      /\ orders # <<>> ) =>
        LET netSales == Minus(Whole(SumAmounts(orders)), invLast.other)
            vatRate == Frac(breakdown.vat.rate, 100)
            whtRate == Frac(breakdown.withholdingTax.rate, 100)
            inclusive == breakdown.vat.isVATInclusive
            grossOfVAT == Over(netSales, Plus(Whole(1), vatRate))
            scPwdDiscount ==
                IF Eligible
                THEN Times(IF inclusive THEN grossOfVAT ELSE netSales, Frac(20, 100))
                ELSE otherwise
            base == IF inclusive THEN grossOfVAT ELSE Minus(netSales, scPwdDiscount)
            salesVATable == IF inclusive THEN Minus(base, scPwdDiscount) ELSE base
            totalVAT == Times(salesVATable, vatRate)
            totalSalesVATInclusive ==
                IF inclusive THEN netSales ELSE Plus(salesVATable, totalVAT)
            withholdingTax == Times(base, whtRate)
            example ==
                /\ orders = <<1120000>>
                /\ invLast.other = Whole(0)
                /\ inclusive
                /\ breakdown.vat.rate = 12
                /\ breakdown.withholdingTax.rate = 0
        IN  /\ breakdown.discount.scPWD = MathRound(scPwdDiscount)
            /\ inclusive => breakdown.vat.vatExemptSales = MathRound(scPwdDiscount)
            /\ breakdown.vat.salesVATable = MathRound(salesVATable)
            /\ breakdown.vat.totalVAT = MathRound(totalVAT)
            /\ breakdown.vat.totalSalesVATInclusive = MathRound(totalSalesVATInclusive)
            /\ breakdown.withholdingTax.totalWithheldTax = MathRound(withholdingTax)
            /\ breakdown.netReceivable = MathRound(Minus(base, withholdingTax))
            /\ breakdown.totalAmountDue =
                MathRound(Minus(totalSalesVATInclusive, withholdingTax))
            /\ example =>
                /\ breakdown.netReceivable = 1000000
                /\ breakdown.totalAmountDue = 1120000
                /\ Eligible => breakdown.discount.scPWD = 200000
                /\ scPwdDiscount = Whole(0) => breakdown.vat.totalVAT = 120000

\* C11: a recomputation of a standard VAT invoice with order lines gives the
\* amounts of the VAT-inclusive and VAT-exclusive formulas, where
\* scPwdDiscount is 20% of the base (of netSales when exclusive) for an
\* eligible customer and 0 for any other.  Inclusive 11,200 at 12% without
\* withholding gives base 10,000, VAT 1,200, net receivable 10,000, amount
\* due 11,200, and a discount of 2,000 for an eligible customer.
C11_VATStandardFormulas == VATStandardFormulas(Whole(0))

\* the same formulas hold when, for a customer who is not eligible, the
\* discount is the SC/PWD discount that the breakdown still carries
C11_FormulasOnCarriedDiscount ==
    VATStandardFormulas(Whole(breakdown.discount.scPWD))

\* the example of the claim, recomputed for a customer never eligible
C11_ExampleReached ==
    /\ Recomputed
    /\ invType = "VAT"
    /\ orders = <<1120000>>
    /\ breakdown.vat.isVATInclusive
    /\ breakdown.withholdingTax.rate = 0
    /\ breakdown.vat.totalVAT = 120000
    /\ breakdown.netReceivable = 1000000

\* C12: while the customer's OSCA/PWD number is absent or blank, the
\* breakdown's SC/PWD discount is 0 and no tax base is reduced by it: the
\* sales subject to percentage tax of a Non-VAT invoice are its net sales and
\* a VAT invoice has no sales exempted by the discount.  This holds also
\* after the number of a customer who was eligible has been cleared.
C12_DiscountOnlyWhileEligible ==
    ~Eligible =>
        /\ breakdown.discount.scPWD = 0
        /\ (Recomputed /\ orders # <<>> /\ invType = "Non-VAT") =>
                breakdown.salesPT =
                    MathRound(Minus(Whole(SumAmounts(orders)), invLast.other))
        /\ (Recomputed /\ breakdown.vat.vatSubtype = "Standard") =>
                breakdown.vat.vatExemptSales = 0

\* the discount block reported: the three amounts as stored, in centavos
DiscountBlockAddsUp ==
    /\ IsWhole(breakdown.discount.other)
    /\ breakdown.discount.totalDiscount =
        breakdown.discount.scPWD + breakdown.discount.other[1]

\* C13: after every recomputation of the breakdown the stored discount block
\* has totalDiscount = scPWD + other exactly, each field being rounded to the
\* centavo.
C13_TotalDiscountIsSumOfFields == Recomputed => DiscountBlockAddsUp

\* the same for an invoice whose other discount was a whole number of
\* centavos when the recomputation read it
C13_SumOfFieldsOnWholeCentavos ==
    (Recomputed /\ IsWhole(invLast.other)) => DiscountBlockAddsUp

\* a call of toggleVATInclusive on `bool` has just been made
Toggled(bool) ==
    invLast'.op = "toggleVATInclusive" /\ invLast'.arg = bool

\* C19: on a VAT invoice toggleVATInclusive(true) leaves the invoice
\* VAT-inclusive, toggleVATInclusive(false) leaves it VAT-exclusive and
\* toggleVATInclusive() inverts the flag it finds; on a Non-VAT invoice the
\* call throws and changes nothing.
C19_ToggleFollowsItsArgument ==
    [][/\ (Toggled("true") /\ invType = "VAT") =>
            invLast'.result = "ok" /\ breakdown'.vat.isVATInclusive
       /\ (Toggled("false") /\ invType = "VAT") =>
            invLast'.result = "ok" /\ ~breakdown'.vat.isVATInclusive
       /\ (Toggled("undefined") /\ invType = "VAT") =>
            /\ invLast'.result = "ok"
            /\ breakdown'.vat.isVATInclusive = ~breakdown.vat.isVATInclusive
       /\ (\E bool \in {"true", "false", "undefined"} :
                Toggled(bool) /\ invType # "VAT") =>
            /\ invLast'.result # "ok"
            /\ UNCHANGED <<invType, orders, oscaPWDNumber, breakdown>>
      ]_vars

\* the same without toggleVATInclusive(false) on a VAT-exclusive invoice
C19_ToggleButFalseOnExclusive ==
    [][/\ (Toggled("true") /\ invType = "VAT") =>
            invLast'.result = "ok" /\ breakdown'.vat.isVATInclusive
       /\ (Toggled("false") /\ invType = "VAT" /\ breakdown.vat.isVATInclusive) =>
            invLast'.result = "ok" /\ ~breakdown'.vat.isVATInclusive
       /\ (Toggled("undefined") /\ invType = "VAT") =>
            /\ invLast'.result = "ok"
            /\ breakdown'.vat.isVATInclusive = ~breakdown.vat.isVATInclusive
       /\ (\E bool \in {"true", "false", "undefined"} :
                Toggled(bool) /\ invType # "VAT") =>
            /\ invLast'.result # "ok"
            /\ UNCHANGED <<invType, orders, oscaPWDNumber, breakdown>>
      ]_vars

\* C20: after disablePercentageTax on a Non-VAT invoice, with or without
\* order lines, the percentage tax rate is 0, the total percentage tax is 0
\* and the net receivable is not reduced by a percentage tax.
C20_DisabledPercentageTaxIsZero ==
    (invLast.op = "disablePercentageTax" /\ invType = "Non-VAT") =>
        /\ invLast.result = "ok"
        /\ breakdown.percentageTax.rate = 0
        /\ breakdown.percentageTax.totalPercentageTax = 0
        /\ breakdown.netReceivable =
                breakdown.totalAmountDue

\* the breakdown after setRate(r) and then setListOrders(L)
RateThenLines(setRate(_, _), r, L) ==
    setListOrders(setRate(Invoice, r).inv, L).inv.breakdown
\* the breakdown after setListOrders(L) and then setRate(r)
LinesThenRate(setRate(_, _), r, L) ==
    setRate(setListOrders(Invoice, L).inv, r).inv.breakdown

\* rates (percent) that are positive and none of the defaults
OtherRates == [vat |-> 10, percentageTax |-> 1, withholding |-> 2]

\* C25: the breakdown depends on the current inputs only, not on the order
\* they were set in: with a non-empty list L and a rate r > 0, setting the
\* rate and then the lines gives the same breakdown (the stored rate
\* included) as setting the lines and then the rate, for setRateVAT on a VAT
\* invoice, setRatePercentageTax on a Non-VAT invoice and setRateWithholding
\* on either.
C25_RateAndLinesInEitherOrder ==
    \A L \in OrderLists \ {<<>>} :
        /\ invType = "VAT" =>
                RateThenLines(setRateVAT, OtherRates.vat, L) =
                    LinesThenRate(setRateVAT, OtherRates.vat, L)
        /\ invType = "Non-VAT" =>
                RateThenLines(setRatePercentageTax, OtherRates.percentageTax, L) =
                    LinesThenRate(setRatePercentageTax, OtherRates.percentageTax, L)
        /\ RateThenLines(setRateWithholding, OtherRates.withholding, L) =
                LinesThenRate(setRateWithholding, OtherRates.withholding, L)

\* what C25 says of an invoice that has order lines when the rate is set
C25_EitherOrderOnInvoiceWithLines ==
    orders # <<>> =>
        \A L \in OrderLists \ {<<>>} :
            /\ invType = "VAT" =>
                    RateThenLines(setRateVAT, OtherRates.vat, L) =
                        LinesThenRate(setRateVAT, OtherRates.vat, L)
            /\ invType = "Non-VAT" =>
                    RateThenLines(setRatePercentageTax, OtherRates.percentageTax, L) =
                        LinesThenRate(setRatePercentageTax, OtherRates.percentageTax, L)
            /\ RateThenLines(setRateWithholding, OtherRates.withholding, L) =
                    LinesThenRate(setRateWithholding, OtherRates.withholding, L)

\* a VAT Standard invoice with order lines and amounts in whole centavos has
\* just been computed for a customer without SC/PWD discount
StandardVATComputed ==
    /\ Recomputed
    /\ invType = "VAT"
    /\ breakdown.vat.vatSubtype = "Standard"
    /\ orders # <<>>
    /\ ~Eligible
    /\ breakdown.discount.scPWD = 0
    /\ IsWhole(invLast.other)

VATBlockReconciles ==
    breakdown.vat.salesVATable + breakdown.vat.totalVAT =
        breakdown.vat.totalSalesVATInclusive

\* C27: the VAT block reconciles after rounding: for every VAT Standard
\* invoice with at least one line, no SC/PWD discount and whole-centavo
\* amounts the stored salesVATable + totalVAT = totalSalesVATInclusive, in
\* VAT-inclusive and in VAT-exclusive mode.
C27_VATBlockReconcilesAfterRounding == StandardVATComputed => VATBlockReconciles

\* what C27 says of the VAT-exclusive mode
C27_ReconcilesWhenExclusive ==
    (StandardVATComputed /\ ~breakdown.vat.isVATInclusive) => VATBlockReconciles

\* 11,200.00 VAT-inclusive: 10,000.00 and 1,200.00
C27_WitnessInclusive ==
    /\ StandardVATComputed
    /\ breakdown.vat.isVATInclusive
    /\ breakdown.vat.salesVATable = 1000000
    /\ breakdown.vat.totalVAT = 120000
    /\ breakdown.vat.totalSalesVATInclusive = 1120000

\* 10.50 VAT-exclusive: 10.50 and 1.26
C27_WitnessExclusive ==
    /\ StandardVATComputed
    /\ ~breakdown.vat.isVATInclusive
    /\ breakdown.vat.salesVATable = 1050
    /\ breakdown.vat.totalVAT = 126
    /\ breakdown.vat.totalSalesVATInclusive = 1176

---------------------------------------------------------------------------
(* VAT subtypes.  No operation sets the subtype: an invoice has one other   *)
(* than Standard only when the order handed to the constructor names it.    *)

\* new DigitalInvoice(...) of type VAT with an order that has no lines yet and
\* names a VAT subtype, inclusive or exclusive, and maybe another discount
InvoiceWithSubtypeMade ==
    /\ origin = "constructor"
    /\ invType = "VAT"
    /\ orders = <<>>
    /\ oscaPWDNumber \in {"", "SC-1"}
    /\ \E d \in OtherDiscounts, subtype \in VATSubType, inclusive \in BOOLEAN :
        breakdown = [InitialBreakdown("VAT") EXCEPT
                        !.discount = [scPWD |-> 0, other |-> d,
                                      totalDiscount |-> round(d)],
                        !.vat = ZeroVAT(DefaultRateVAT, inclusive, subtype)]
    /\ payment = DefaultPayment
    /\ invLast = [op |-> origin, arg |-> "", result |-> "ok",
                  other |-> breakdown.discount.other]

NextVATSubtype ==
    \/ \E list \in OrderLists : SetListOrders(list)
    \/ ClearListOrders
    \/ \E input \in RatesVAT : SetRateVAT(input)
    \/ \E input \in RatesWithholding : SetRateWithholding(input)
    \/ \E input \in OSCAPWDNumbers : SetCustomerOSCAPWDNumber(input)
    \/ \E bool \in {"true", "false", "undefined"} : ToggleVATInclusive(bool)

InitVATSubtype == InvoiceWithSubtypeMade /\ SessionIdle /\ LibraryIdle

SpecVATSubtype == InitVATSubtype /\ [][NextVATSubtype]_vars

\* the step is a recomputation, with order lines, of a VAT invoice that had
\* the given subtype
RecomputesSubtype(subtype) ==
    /\ invType = "VAT"
    /\ breakdown.vat.vatSubtype = subtype
    /\ invLast'.op \in ChangesBreakdownInput \ {"setInvoiceVATType"}
    /\ invLast'.result = "ok"
    /\ orders' # <<>>

\* the net sales the step computes on, rounded as they are stored
NetSalesStored == round(Minus(Whole(SumAmounts(orders')), breakdown.discount.other))

\* no VAT, no base: nothing withheld and nothing receivable; the amount due
\* is the net sales when VAT-inclusive and 0 when VAT-exclusive
NoVATNoBase ==
    /\ breakdown'.vat.salesVATable = 0
    /\ breakdown'.vat.totalVAT = 0
    /\ breakdown'.withholdingTax.totalWithheldTax = 0
    /\ breakdown'.netReceivable = 0
    /\ breakdown'.totalAmountDue =
            (IF breakdown'.vat.isVATInclusive THEN NetSalesStored ELSE 0)

\* C28: a VAT invoice of subtype Exempt (Zero-rated) with at least one order
\* line reports the whole net sales as vatExemptSales (vatZeroRatedSales),
\* with salesVATable = 0 and totalVAT = 0; the base is 0, so totalWithheldTax
\* = 0 and netReceivable = 0, and totalAmountDue is the net sales when
\* VAT-inclusive and 0 when VAT-exclusive.
C28_ExemptAndZeroRated ==
    [][ /\ RecomputesSubtype("Exempt") =>
            (breakdown'.vat.vatExemptSales = NetSalesStored /\ NoVATNoBase)
        /\ RecomputesSubtype("Zero-rated") =>
            (breakdown'.vat.vatZeroRatedSales = NetSalesStored /\ NoVATNoBase)
      ]_vars

\* 10,000.00 of exempt sales, VAT-inclusive, with a withholding rate of 5%
C28_Witness ==
    /\ Recomputed
    /\ breakdown.vat.vatSubtype = "Exempt"
    /\ breakdown.vat.isVATInclusive
    /\ breakdown.withholdingTax.rate = 5
    /\ breakdown.vat.vatExemptSales = 1000000
    /\ breakdown.totalAmountDue = 1000000
    /\ breakdown.netReceivable = 0

\* 10,000.00 of zero-rated sales, VAT-exclusive
C28_WitnessZeroRatedExclusive ==
    /\ Recomputed
    /\ breakdown.vat.vatSubtype = "Zero-rated"
    /\ ~breakdown.vat.isVATInclusive
    /\ breakdown.vat.vatZeroRatedSales = 1000000
    /\ breakdown.totalAmountDue = 0

---------------------------------------------------------------------------
(* The payment of an invoice *)

\* The payment call `op` ends as `outcome` says.
PaymentCall(op, outcome) ==
    /\ payment' = outcome.payment
    /\ invLast' = [op |-> op, arg |-> "", result |-> outcome.result,
                   other |-> breakdown.discount.other]
    /\ UNCHANGED <<origin, invType, orders, oscaPWDNumber, breakdown>>
    /\ UNCHANGED <<sessVars, libVars>>

\* the texts the setters are given: a blank one and another
PaymentTexts == {"", "X"}

SetPaymentMethod(input) ==
    PaymentCall("setPaymentMethod", setPaymentMethod(payment, input))
SetPaymentBank(field, input) ==
    PaymentCall("setPaymentBank", setPaymentBank(payment, field, input))
SetPaymentCheck(field, input) ==
    PaymentCall("setPaymentCheck", setPaymentCheck(payment, field, input))
SetPaymentReferenceNumber(input) ==
    PaymentCall("setPaymentReferenceNumber",
                setPaymentReferenceNumber(payment, input))

NextPayment ==
    \/ \E input \in InvoicePaymentMethod \cup {""} : SetPaymentMethod(input)
    \/ \E field \in DOMAIN DefaultBank, input \in PaymentTexts :
            SetPaymentBank(field, input)
    \/ \E field \in DOMAIN DefaultCheck, input \in PaymentTexts :
            SetPaymentCheck(field, input)
    \/ \E input \in PaymentTexts : SetPaymentReferenceNumber(input)

\* DigitalInvoice.initialize(type)
InitPayment == InvoiceMade /\ origin = "initialize" /\ SessionIdle /\ LibraryIdle

SpecPayment == InitPayment /\ [][NextPayment]_vars

CashHasNoDetails ==
    payment.method = "Cash" =>
        /\ payment.bank = Absent
        /\ payment.check = Absent
        /\ payment.referenceNumber = Absent
CheckInformationOnlyOnCheck == payment.check # Absent => payment.method = "Check"
CheckHasNoBankNoReference ==
    payment.method = "Check" =>
        /\ payment.bank = Absent
        /\ payment.referenceNumber = Absent

\* C29: the payment details are consistent with the payment method in every
\* state reached from initialize through setPaymentMethod and the setters of
\* the details: with Cash there is no bank, check or reference number; check
\* information is there only with Check; with Check there is neither bank
\* information nor a reference number.
C29_PaymentDetailsMatchMethod ==
    /\ CashHasNoDetails
    /\ CheckInformationOnlyOnCheck
    /\ CheckHasNoBankNoReference

\* what C29 says of Cash in every state, and of the other methods just after
\* setPaymentMethod
C29_MatchOnCashAndAfterSetPaymentMethod ==
    /\ CashHasNoDetails
    /\ (invLast.op = "setPaymentMethod" /\ invLast.result = "ok")
            => (CheckInformationOnlyOnCheck /\ CheckHasNoBankNoReference)

\* a payment that had bank details and a reference number was set to Check
C29_WitnessAfterSetPaymentMethod ==
    /\ invLast.op = "setPaymentMethod"
    /\ invLast.result = "ok"
    /\ payment.method = "Check"
    /\ payment.check # Absent
    /\ payment.bank = Absent

---------------------------------------------------------------------------
(* Income tax schedule: computeGraduatedIncomeTax called on its own *)

\* the incomes tried, in pesos: a loss, nothing, each bracket limit with the
\* peso below and the peso above it, and every IncomeGrid pesos up to
\* IncomeSteps times
IncomeGrid == 300000
IncomeSteps == 30
BracketLimits == {250000, 400000, 800000, 2000000, 8000000}
Incomes ==
    {-1000, 0}
        \cup {limit + d : limit \in BracketLimits, d \in {-1, 0, 1}}
        \cup {500000}
        \cup {IncomeGrid * k : k \in 1..IncomeSteps}

IncomeTaxCallMade ==
    /\ operands \in [fn : {"computeGraduatedIncomeTax"},
                     income : Incomes, type : IncomeTaxType]
    /\ returned = [done |-> FALSE]

ComputeGraduatedIncomeTax ==
    /\ operands.fn = "computeGraduatedIncomeTax"
    /\ ~returned.done
    /\ returned' =
        [done |-> TRUE,
         value |-> computeGraduatedIncomeTax(operands.income, operands.type)]
    /\ UNCHANGED <<operands, sessVars, invVars>>

NextIncomeTax == ComputeGraduatedIncomeTax

InitIncomeTax == IncomeTaxCallMade /\ SessionIdle /\ InvoiceIdle

SpecIncomeTax == InitIncomeTax /\ [][NextIncomeTax]_vars

\* The schedule as the tax table states it, in centavos: a bracket is
\* <<over, up to, tax on the lower limit, percent of the excess>>.
TaxTable ==
    { <<250000, 400000, 0, 15>>,
      <<400000, 800000, 2250000, 20>>,
      <<800000, 2000000, 10250000, 25>>,
      <<2000000, 8000000, 40250000, 30>> }
ScheduledTax(income, regime) ==
    IF income <= 250000 THEN 0
    ELSE IF regime = "FLAT" THEN (income - 250000) * 8
    ELSE IF income > 8000000 THEN 220250000 + (income - 8000000) * 35
    ELSE LET bracket == CHOOSE b \in TaxTable : b[1] < income /\ income <= b[2]
         IN  bracket[3] + (income - bracket[1]) * bracket[4]

\* C14: computeGraduatedIncomeTax(income, regime) is the tax of the schedule
\* for every income under both regimes, each bracket limit falling in the
\* lower bracket; 500,000 gives 42,500 graduated and 20,000 flat.
C14_IncomeTaxFollowsSchedule ==
    (operands.fn = "computeGraduatedIncomeTax" /\ returned.done) =>
        /\ returned.value = ScheduledTax(operands.income, operands.type)
        /\ (operands.income = 500000 /\ operands.type = "GRADUATED") =>
                returned.value = 4250000
        /\ (operands.income = 500000 /\ operands.type = "FLAT") =>
                returned.value = 2000000

\* the tax on 500,000 has been computed under the graduated schedule
C14_Witness ==
    /\ operands.fn = "computeGraduatedIncomeTax"
    /\ returned.done
    /\ operands.income = 500000
    /\ operands.type = "GRADUATED"
    /\ returned.value = 4250000

\* the tax on an income of the last bracket has been computed
C14_WitnessTopBracket ==
    /\ operands.fn = "computeGraduatedIncomeTax"
    /\ returned.done
    /\ operands.income = 8000001
    /\ operands.type = "GRADUATED"
    /\ returned.value = 220250035

\* the tax (centavos) due at each bracket limit of the graduated schedule
TaxAtLimit ==
    [limit \in BracketLimits |->
        CASE limit = 250000 -> 0
          [] limit = 400000 -> 2250000
          [] limit = 800000 -> 10250000
          [] limit = 2000000 -> 40250000
          [] limit = 8000000 -> 220250000]

\* C30: under each regime the income tax is never negative and never falls
\* as the income rises; the graduated schedule does not jump at a bracket
\* limit (22,500 at 400,000, 102,500 at 800,000, 402,500 at 2,000,000 and
\* 2,202,500 at 8,000,000, and at most 35 centavos more a peso above); the
\* FLAT tax never exceeds the GRADUATED tax on the same income.
C30_IncomeTaxMonotoneWithoutJumps ==
    (operands.fn = "computeGraduatedIncomeTax" /\ returned.done) =>
        /\ returned.value >= 0
        /\ \A lower \in Incomes :
                lower <= operands.income =>
                    computeGraduatedIncomeTax(lower, operands.type) <= returned.value
        /\ operands.type = "GRADUATED" =>
                \A limit \in BracketLimits :
                    /\ operands.income = limit => returned.value = TaxAtLimit[limit]
                    /\ operands.income = limit + 1 =>
                            /\ returned.value >= TaxAtLimit[limit]
                            /\ returned.value <= TaxAtLimit[limit] + 35
        /\ operands.type = "FLAT" =>
                returned.value <=
                    computeGraduatedIncomeTax(operands.income, "GRADUATED")

\* the tax a peso above the limit of 400,000: 20 centavos over 22,500.00
C30_Witness ==
    /\ operands.fn = "computeGraduatedIncomeTax"
    /\ returned.done
    /\ operands.income = 400001
    /\ operands.type = "GRADUATED"
    /\ returned.value = 2250020

\* the flat tax on 9,000,000, below the graduated 2,552,500.00
C30_WitnessFlat ==
    /\ operands.fn = "computeGraduatedIncomeTax"
    /\ returned.done
    /\ operands.income = 9000000
    /\ operands.type = "FLAT"
    /\ returned.value = 70000000
    /\ computeGraduatedIncomeTax(9000000, "GRADUATED") = 255250000

---------------------------------------------------------------------------
(* Money (finance/money): an amount and a currency code                     *)
(*                                                                          *)
(* The amount is a Decimal, held here in thousandths of a peso.  Decimal    *)
(* arithmetic is exact on the amounts tried, which are far shorter than the *)
(* 20 significant digits Decimal keeps; NaN and the infinities are left     *)
(* out.  A serialized amount is the text toFixed(2) writes, character by    *)
(* character.                                                               *)

\* String.prototype.toUpperCase on the currency codes tried
toUpperCase(text) ==
    CASE text = "php" -> "PHP"
      [] text = "Php" -> "PHP"
      [] text = "usd" -> "USD"
      [] OTHER -> text

\* new Money(value, currency)
Money(value, currency) == [amount |-> value, currency |-> toUpperCase(currency)]

DigitChars == <<"0", "1", "2", "3", "4", "5", "6", "7", "8", "9">>

\* the decimal digits of n >= 0
RECURSIVE Digits(_)
Digits(n) ==
    IF n < 10 THEN <<DigitChars[n + 1]>>
    ELSE Digits(n \div 10) \o <<DigitChars[(n % 10) + 1]>>

\* the number a text of digits writes, read from the left onto `sofar`
RECURSIVE ReadDigits(_, _)
ReadDigits(text, sofar) ==
    IF text = <<>> THEN sofar
    ELSE ReadDigits(Tail(text),
                    10 * sofar + (CHOOSE d \in 0..9 : DigitChars[d + 1] = Head(text)))

\* the hundredths nearest to `mills` thousandths, a half going away from zero
\* (Decimal's default rounding mode)
HundredthsOf(mills) ==
    IF mills >= 0 THEN (mills + 5) \div 10 ELSE -((-mills + 5) \div 10)

\* Decimal.toFixed(2)
toFixed2(mills) ==
    (IF HundredthsOf(mills) < 0 THEN <<"-">> ELSE <<>>)
        \o Digits(Abs(HundredthsOf(mills)) \div 100)
        \o <<".">>
        \o <<DigitChars[((Abs(HundredthsOf(mills)) \div 10) % 10) + 1],
             DigitChars[(Abs(HundredthsOf(mills)) % 10) + 1]>>

\* where the decimal point of a text is; one past its end when it has none
PointAt(text) ==
    IF \E i \in 1..Len(text) : text[i] = "."
    THEN CHOOSE i \in 1..Len(text) : text[i] = "."
    ELSE Len(text) + 1

\* the digits of a text after its decimal point, filled up to three
Thousandths(text) ==
    SubSeq(SubSeq(text, PointAt(text) + 1, Len(text)) \o <<"0", "0", "0">>, 1, 3)

\* new Decimal(text) for a text of at most three fractional digits, in
\* thousandths
DecimalOfText(text) ==
    IF Head(text) = "-"
    THEN -(1000 * ReadDigits(SubSeq(text, 2, PointAt(text) - 1), 0)
            + ReadDigits(Thousandths(text), 0))
    ELSE 1000 * ReadDigits(SubSeq(text, 1, PointAt(text) - 1), 0)
            + ReadDigits(Thousandths(text), 0)

\* new Decimal(value) for a JSON amount: a number, or a text
DecimalOf(value) ==
    IF value.type = "number" THEN value.mills ELSE DecimalOfText(value.text)

\* assertSameCurrency: TRUE when it returns, FALSE when it throws
assertSameCurrency(this, other) == this.currency = other.currency

MoneyThrew(err) == [result |-> err]
MoneyDone(value) == [result |-> "ok", value |-> value]

Money_add(this, other) ==
    IF ~assertSameCurrency(this, other) THEN MoneyThrew("Currency mismatch")
    ELSE MoneyDone(Money(this.amount + other.amount, this.currency))

\* (variant) a subtraction that takes the currency of its argument for granted
Money_subtract_Unchecked(this, other) ==
    MoneyDone(Money(this.amount - other.amount, this.currency))

Money_subtract(this, other) ==
    IF ~assertSameCurrency(this, other) THEN MoneyThrew("Currency mismatch")
    ELSE MoneyDone(Money(this.amount - other.amount, this.currency))

Money_equals(this, other) ==
    this.currency = other.currency /\ this.amount = other.amount

\* (variant) a serialization that writes the amount cut to whole centavos
\* only when it has a fraction of a centavo, and in full pesos otherwise
Money_toJSON_ShortestText(this) ==
    [amount |-> [type |-> "string",
                 text |-> IF this.amount % 1000 = 0 /\ this.amount >= 0
                          THEN Digits(this.amount \div 1000)
                          ELSE toFixed2(this.amount)],
     currency |-> [type |-> "string", text |-> this.currency]]

Money_toJSON(this) ==
    [amount |-> [type |-> "string", text |-> toFixed2(this.amount)],
     currency |-> [type |-> "string", text |-> this.currency]]

Money_parseFromJSON(data) ==
    IF data.currency.type # "string"
    THEN MoneyThrew("Invalid currency type")
    ELSE MoneyDone(Money(DecimalOf(data.amount), data.currency.text))

\* Money.fromCentavos: new Decimal(centavos).div(100), in thousandths
Money_fromCentavos(centavos, currency) == Money((centavos * 1000) \div 100, currency)

\* Money.fromPesos, of a peso value given in thousandths
Money_fromPesos(pesos, currency) == Money(pesos, currency)

\* toPesos: the amount as a number, in thousandths
Money_toPesos(this) == this.amount

\* (variant) a conversion that drops the fraction of a centavo
Money_toCentavos_Truncating(this) ==
    IF this.amount >= 0 THEN this.amount \div 10 ELSE -((-this.amount) \div 10)

\* toCentavos: amount.mul(100).toDecimalPlaces(0, ROUND_HALF_UP)
Money_toCentavos(this) ==
    IF this.amount * 100 >= 0
    THEN (this.amount * 100 + 500) \div 1000
    ELSE -((-(this.amount * 100) + 500) \div 1000)

\* ---- the values tried ----

\* amounts in thousandths of a peso: with and without a fraction of a
\* centavo, of either sign, on and off a half centavo; no negative amount
\* that rounds to zero, the sign of which is Decimal's own business
MoneyAmounts == {-12344, -2505, -2500, 0, 4, 5, 1000, 12340, 12345}
CurrencyCodes == {"PHP", "php", "USD"}
Moneys == {Money(value, code) : value \in MoneyAmounts, code \in CurrencyCodes}

\* integers handed to fromCentavos
CentavoCounts == {-251, -1, 0, 1, 12345}
\* peso values handed to fromPesos, in thousandths: 1.005 and its like
PesoValues == {-1005, 1004, 1005}

\* plain objects handed to parseFromJSON
MoneyData ==
    [amount : {[type |-> "number", mills |-> 12500],
               [type |-> "string", text |-> <<"1", "2", ".", "5">>],
               [type |-> "string", text |-> <<"-", "3", ".", "0", "0", "5">>],
               [type |-> "string", text |-> <<"7">>]},
     currency : {[type |-> "string", text |-> "php"],
                 [type |-> "string", text |-> "USD"],
                 [type |-> "number"], [type |-> "undefined"]}]

\* ---- the calls ----

MoneyCallMade ==
    /\ operands \in [fn : {"Money"}, a : Moneys, b : Moneys, data : MoneyData]
    /\ returned = [done |-> FALSE]

\* amount and currency are readonly and no method assigns them: a call leaves
\* the values it is made on (`on`) as they are
MoneyCall(call, outcome) ==
    /\ operands.fn = "Money"
    /\ ~returned.done
    /\ returned' = [done |-> TRUE, call |-> call, out |-> outcome,
                    on |-> [a |-> operands.a, b |-> operands.b]]
    /\ UNCHANGED <<operands, sessVars, invVars>>

\* a.add(b)
Add == MoneyCall("add", Money_add(operands.a, operands.b))

\* a.subtract(b)
Subtract == MoneyCall("subtract", Money_subtract(operands.a, operands.b))

\* a.add(b).subtract(b).equals(a)
AddSubtractEquals ==
    MoneyCall("add.subtract.equals",
        IF Money_add(operands.a, operands.b).result # "ok"
        THEN Money_add(operands.a, operands.b)
        ELSE IF Money_subtract(Money_add(operands.a, operands.b).value,
                               operands.b).result # "ok"
        THEN Money_subtract(Money_add(operands.a, operands.b).value, operands.b)
        ELSE MoneyDone(
                Money_equals(
                    Money_subtract(Money_add(operands.a, operands.b).value,
                                   operands.b).value,
                    operands.a)))

\* a.toJSON(), Money.parseFromJSON of it, and that one's toJSON()
SerializeAndParse ==
    MoneyCall("toJSON.parseFromJSON",
        [result |-> Money_parseFromJSON(Money_toJSON(operands.a)).result,
         json |-> Money_toJSON(operands.a),
         parsed |-> Money_parseFromJSON(Money_toJSON(operands.a)).value,
         again |-> Money_toJSON(
                    Money_parseFromJSON(Money_toJSON(operands.a)).value)])

\* Money.parseFromJSON(data)
ParseFromJSON == MoneyCall("parseFromJSON", Money_parseFromJSON(operands.data))

\* a.toCentavos()
ToCentavos == MoneyCall("toCentavos", MoneyDone(Money_toCentavos(operands.a)))

\* Money.fromCentavos(centavos), its toCentavos() and its toPesos()
FromCentavos(centavos) ==
    MoneyCall("fromCentavos",
        [result |-> "ok", arg |-> centavos,
         centavos |-> Money_toCentavos(Money_fromCentavos(centavos, "PHP")),
         pesos |-> Money_toPesos(Money_fromCentavos(centavos, "PHP"))])

\* Money.fromPesos(pesos).toCentavos()
FromPesos(pesos) ==
    MoneyCall("fromPesos",
        [result |-> "ok", arg |-> pesos,
         centavos |-> Money_toCentavos(Money_fromPesos(pesos, "PHP"))])

NextMoney ==
    \/ Add
    \/ Subtract
    \/ AddSubtractEquals
    \/ SerializeAndParse
    \/ ParseFromJSON
    \/ ToCentavos
    \/ \E centavos \in CentavoCounts : FromCentavos(centavos)
    \/ \E pesos \in PesoValues : FromPesos(pesos)

InitMoney == MoneyCallMade /\ SessionIdle /\ InvoiceIdle

SpecMoney == InitMoney /\ [][NextMoney]_vars

MoneyReturned(call) ==
    operands.fn = "Money" /\ returned.done /\ returned.call = call

C15_WitnessMismatch ==
    /\ MoneyReturned("subtract")
    /\ operands.a.currency = "PHP"
    /\ operands.b.currency = "USD"
    /\ returned.out.result = "Currency mismatch"

\* a text of digits, a point and exactly two digits, after a minus sign or not
TwoFractionalDigits(text) ==
    /\ PointAt(text) = Len(text) - 2
    /\ PointAt(text) > 1
    /\ \A i \in 1..Len(text) :
        \/ i = PointAt(text)
        \/ \E d \in 1..10 : DigitChars[d] = text[i]
        \/ i = 1 /\ text[i] = "-" /\ PointAt(text) > 2

\* C16: for every Money m, parseFromJSON(m.toJSON()).toJSON() is m.toJSON(),
\* whose amount is written with exactly two fractional digits; when the
\* amount of m has at most two decimal places the parsed Money equals m;
\* parseFromJSON fails when the currency is not a string.
C16_MoneySerializationRoundTrips ==
    /\ MoneyReturned("toJSON.parseFromJSON") =>
        /\ returned.out.result = "ok"
        /\ returned.out.again = returned.out.json
        /\ returned.out.json.amount.type = "string"
        /\ TwoFractionalDigits(returned.out.json.amount.text)
        /\ returned.out.json.currency = [type |-> "string", text |-> operands.a.currency]
        /\ operands.a.amount % 10 = 0 =>
                Money_equals(returned.out.parsed, operands.a)
    /\ MoneyReturned("parseFromJSON") =>
        /\ operands.data.currency.type # "string" =>
                returned.out = MoneyThrew("Invalid currency type")
        /\ operands.data.currency.type = "string" => returned.out.result = "ok"

\* 12.345 was written as 12.35, which reads as another amount and is written
\* as 12.35 again
C16_Witness ==
    /\ MoneyReturned("toJSON.parseFromJSON")
    /\ operands.a.amount = 12345
    /\ returned.out.json.amount.text = <<"1", "2", ".", "3", "5">>
    /\ returned.out.parsed.amount = 12350
    /\ returned.out.again = returned.out.json

\* -2.50 was written and read back as an equal Money
C16_WitnessEquals ==
    /\ MoneyReturned("toJSON.parseFromJSON")
    /\ operands.a.amount = -2500
    /\ returned.out.json.amount.text = <<"-", "2", ".", "5", "0">>
    /\ Money_equals(returned.out.parsed, operands.a)

\* a plain object whose currency is a number was refused
C16_WitnessNotAString ==
    /\ MoneyReturned("parseFromJSON")
    /\ operands.data.currency.type = "number"
    /\ returned.out.result = "Invalid currency type"

\* c is the integer nearest to `mills` thousandths of a peso counted in
\* centavos, the farther from zero of the two when they are equally near
NearestCentavo(mills, c) ==
    \/ Abs(mills - 10 * c) < 5
    \/ Abs(mills - 10 * c) = 5 /\ Abs(10 * c) > Abs(mills)

\* C21: toCentavos is the amount times 100 rounded to an integer, a half going
\* away from zero; fromCentavos(n).toCentavos() = n for every integer n;
\* fromCentavos(12345).toPesos() = 123.45; fromPesos(1.005).toCentavos() = 101.
C21_CentavoConversions ==
    /\ MoneyReturned("toCentavos") =>
            NearestCentavo(operands.a.amount, returned.out.value)
    /\ MoneyReturned("fromCentavos") =>
        /\ returned.out.centavos = returned.out.arg
        /\ returned.out.arg = 12345 => returned.out.pesos = 123450
    /\ MoneyReturned("fromPesos") =>
        /\ NearestCentavo(returned.out.arg, returned.out.centavos)
        /\ returned.out.arg = 1005 => returned.out.centavos = 101

\* 1.005 pesos came out as 101 centavos
C21_Witness ==
    /\ MoneyReturned("fromPesos")
    /\ returned.out.arg = 1005
    /\ returned.out.centavos = 101

\* -2.505 pesos came out as -251 centavos
C21_WitnessNegativeHalf ==
    /\ MoneyReturned("toCentavos")
    /\ operands.a.amount = -2505
    /\ returned.out.value = -251

\* 12345 centavos went in and came back
C21_WitnessInverse ==
    /\ MoneyReturned("fromCentavos")
    /\ returned.out.arg = 12345
    /\ returned.out.centavos = 12345
    /\ returned.out.pesos = 123450

---------------------------------------------------------------------------
(* Serialization of invoices and sessions: toJSON and parseFromJSON         *)
(*                                                                          *)
(* A text that is put together from parts (an id, an ISO timestamp) is the  *)
(* sequence of its parts; <<>> is the empty text, and undefined, which the  *)
(* code tells apart nowhere (`id || ...`, `timestamp || ...`).  A plain     *)
(* object is a function of its property names; an absent property is not in *)
(* its domain.  Every property value tried is truthy.                       *)

\* the longest set of properties left out of a plain object
MaxAbsent == 2
\* Date.now() in whole seconds
MaxClock == 1
Clock == 0..MaxClock

\* input.toLowerCase().replace(/[^a-z0-9]+/g, "-").replace(/^-+|-+$/g, "")
\* on the inputs tried, which have nothing but letters to change
titleText(input) ==
    CASE input = "1000A0001001" -> "1000a0001001"
      [] input = "User-1" -> "user-1"
      [] OTHER -> input

\* autogenerateID of business-invoice.ts (prefix "invoice") and of
\* business-buwis-friend.ts (prefix "buwisfriend")
autogenerateID(prefix, input, now) == <<prefix, "-", titleText(input), "-">> \o Digits(now)

\* new Date().toISOString() at `now`
toISOString(now) == <<"T">> \o Digits(now)

\* x || d on texts
TextOrElse(x, d) == IF x = <<>> THEN d ELSE x

\* new DigitalInvoice(id, metadata, customer, issuer, order, payment, timestamp)
\* for arguments other than id and timestamp that are given
DigitalInvoice(id, metadata, customer, issuer, order, paymentGiven, timestamp, now) ==
    [id |-> TextOrElse(id, autogenerateID("invoice", metadata.invoiceNumber, now)),
     timestamp |-> TextOrElse(timestamp, toISOString(now)),
     metadata |-> metadata,
     customer |-> customer,
     issuer |-> issuer,
     order |-> order,
     payment |-> paymentGiven]

DigitalInvoice_toJSON(this) ==
    [id |-> this.id, metadata |-> this.metadata, customer |-> this.customer,
     issuer |-> this.issuer, order |-> this.order, payment |-> this.payment,
     timestamp |-> this.timestamp]

\* !parsedData[name]
Lacks(parsedData, name) == name \notin DOMAIN parsedData

\* parsedData?.timestamp
TimestampOf(parsedData) ==
    IF "timestamp" \in DOMAIN parsedData THEN parsedData.timestamp ELSE <<>>

ParseThrew(name) == [result |-> "Missing required property", property |-> name]
ParseDone(entity) == [result |-> "ok", value |-> entity]

\* (variant) a parse that does not look for the payment
DigitalInvoice_parseFromJSON_PaymentNotRequired(parsedData, now) ==
    IF Lacks(parsedData, "id") THEN ParseThrew("id")
    ELSE IF Lacks(parsedData, "metadata") THEN ParseThrew("metadata")
    ELSE IF Lacks(parsedData, "customer") THEN ParseThrew("customer")
    ELSE IF Lacks(parsedData, "issuer") THEN ParseThrew("issuer")
    ELSE IF Lacks(parsedData, "order") THEN ParseThrew("order")
    ELSE ParseDone(DigitalInvoice(<<>>, parsedData.metadata, parsedData.customer,
                                  parsedData.issuer, parsedData.order,
                                  IF Lacks(parsedData, "payment")
                                  THEN [method |-> "Cash"]
                                  ELSE parsedData.payment,
                                  TimestampOf(parsedData), now))

DigitalInvoice_parseFromJSON(parsedData, now) ==
    IF Lacks(parsedData, "id") THEN ParseThrew("id")
    ELSE IF Lacks(parsedData, "metadata") THEN ParseThrew("metadata")
    ELSE IF Lacks(parsedData, "customer") THEN ParseThrew("customer")
    ELSE IF Lacks(parsedData, "issuer") THEN ParseThrew("issuer")
    ELSE IF Lacks(parsedData, "order") THEN ParseThrew("order")
    ELSE IF Lacks(parsedData, "payment") THEN ParseThrew("payment")
    ELSE ParseDone(DigitalInvoice(<<>>, parsedData.metadata, parsedData.customer,
                                  parsedData.issuer, parsedData.order,
                                  parsedData.payment, TimestampOf(parsedData), now))

\* BuwisFriend.parseFromJSON; of the session it returns, the fields the
\* constructor takes over as they are
BuwisFriend_parseFromJSON(parsedData, now) ==
    IF Lacks(parsedData, "id") THEN ParseThrew("id")
    ELSE IF Lacks(parsedData, "metadata") THEN ParseThrew("metadata")
    ELSE IF Lacks(parsedData, "invoices") THEN ParseThrew("invoices")
    ELSE IF Lacks(parsedData, "summary") THEN ParseThrew("summary")
    ELSE ParseDone([id |-> parsedData.id,
                    metadata |-> parsedData.metadata,
                    invoices |-> parsedData.invoices,
                    timestamp |-> TextOrElse(TimestampOf(parsedData),
                                             toISOString(now))])

\* ---- the values tried ----

\* invoices: with an id of their own or a generated one, of either type,
\* made at any second
InvoicesToSerialize ==
    { DigitalInvoice(id, [type |-> type, invoiceNumber |-> "1000A0001001"],
                     [name |-> "Customer XYZ"], [name |-> "Taxpayer ABC"],
                     [orders |-> <<>>, breakdown |-> InitialBreakdown(type)],
                     [method |-> "Cash"], <<>>, made) :
        id \in {<<>>, <<"INV-1">>}, type \in InvoiceVATType, made \in Clock }

\* a serialized session
SessionJSON ==
    [id |-> <<"S-1">>, metadata |-> [userID |-> "User-1", quarter |-> "Q1"],
     invoices |-> <<>>, summary |-> [totals |-> ZeroTotals],
     timestamp |-> toISOString(0)]

RequiredOfInvoice == {"id", "metadata", "customer", "issuer", "order", "payment"}
RequiredOfSession == {"id", "metadata", "invoices", "summary"}

\* the plain object without the properties `absent`
Without(object, absent) == [name \in DOMAIN object \ absent |-> object[name]]

\* ---- the calls ----

SerializationCallMade ==
    /\ operands \in
        [fn : {"parseFromJSON"}, x : InvoicesToSerialize, now : Clock,
         absent : {names \in SUBSET (RequiredOfInvoice \cup RequiredOfSession) :
                        Cardinality(names) <= MaxAbsent}]
    /\ returned = [done |-> FALSE]

SerializationCall(call, outcome) ==
    /\ operands.fn = "parseFromJSON"
    /\ ~returned.done
    /\ returned' = [done |-> TRUE, call |-> call, out |-> outcome]
    /\ UNCHANGED <<operands, sessVars, invVars>>

\* x.toJSON(), DigitalInvoice.parseFromJSON of it, and that one's toJSON()
InvoiceRoundTrip ==
    SerializationCall("DigitalInvoice.roundTrip",
        [json |-> DigitalInvoice_toJSON(operands.x),
         parsed |-> DigitalInvoice_parseFromJSON(
                        DigitalInvoice_toJSON(operands.x), operands.now),
         again |-> DigitalInvoice_toJSON(
                        DigitalInvoice_parseFromJSON(
                            DigitalInvoice_toJSON(operands.x), operands.now).value)])

\* DigitalInvoice.parseFromJSON of a plain object that lacks properties
InvoiceParse ==
    SerializationCall("DigitalInvoice.parseFromJSON",
        DigitalInvoice_parseFromJSON(
            Without(DigitalInvoice_toJSON(operands.x), operands.absent),
            operands.now))

\* BuwisFriend.parseFromJSON of a plain object that lacks properties
SessionParse ==
    SerializationCall("BuwisFriend.parseFromJSON",
        BuwisFriend_parseFromJSON(Without(SessionJSON, operands.absent),
                                  operands.now))

NextSerialization ==
    \/ InvoiceRoundTrip
    \/ InvoiceParse
    \/ SessionParse

InitSerialization == SerializationCallMade /\ SessionIdle /\ InvoiceIdle

SpecSerialization == InitSerialization /\ [][NextSerialization]_vars

SerializationReturned(call) ==
    operands.fn = "parseFromJSON" /\ returned.done /\ returned.call = call

\* C17: for every invoice x, parseFromJSON(x.toJSON()).toJSON() equals
\* x.toJSON() field for field, the id included.
C17_InvoiceRoundTripKeepsEveryField ==
    SerializationReturned("DigitalInvoice.roundTrip") =>
        /\ returned.out.parsed.result = "ok"
        /\ returned.out.again = returned.out.json

\* the same, for every field but the id
C17_RoundTripKeepsAllButId ==
    SerializationReturned("DigitalInvoice.roundTrip") =>
        /\ returned.out.parsed.result = "ok"
        /\ \A name \in DOMAIN returned.out.json \ {"id"} :
                returned.out.again[name] = returned.out.json[name]

\* C18: parseFromJSON raises an error and returns no entity when a required
\* top-level property is absent: id, metadata, customer, issuer, order or
\* payment of an invoice; id, metadata, invoices or summary of a session.
C18_MissingFieldFailsLoudly ==
    /\ (/\ SerializationReturned("DigitalInvoice.parseFromJSON")
        /\ operands.absent \cap RequiredOfInvoice # {}) =>
            /\ returned.out.result = "Missing required property"
            /\ returned.out.property \in operands.absent \cap RequiredOfInvoice
            /\ "value" \notin DOMAIN returned.out
    /\ (/\ SerializationReturned("BuwisFriend.parseFromJSON")
        /\ operands.absent \cap RequiredOfSession # {}) =>
            /\ returned.out.result = "Missing required property"
            /\ returned.out.property \in operands.absent \cap RequiredOfSession
            /\ "value" \notin DOMAIN returned.out

\* an invoice without its payment was refused
C18_Witness ==
    /\ SerializationReturned("DigitalInvoice.parseFromJSON")
    /\ operands.absent = {"payment"}
    /\ returned.out = ParseThrew("payment")

\* a session without its summary was refused
C18_WitnessSession ==
    /\ SerializationReturned("BuwisFriend.parseFromJSON")
    /\ operands.absent = {"summary"}
    /\ returned.out = ParseThrew("summary")

====
